---- MODULE Spec2Model ----
(***************************************************************************)
(* Model of the shipping quote tool: the carton packing calculator         *)
(* (services/product_data.py), the FedEx rate parser                        *)
(* (services/fedex_api.py), the international quote flow and its pricing   *)
(* rows (views/quote.py), the FedEx rate request with its token cache       *)
(* (services/fedex_api.py), the quote log (services/history.py), the        *)
(* catalog loaders (services/product_data.py, app.py) and the domestic      *)
(* fixed basic cost (views/quote.py, config.py).                            *)
(*                                                                          *)
(* Units.  Python floats are modelled by exact integers:                    *)
(*   weight_kg of a packing option   grams (1/1000 kg)                      *)
(*   total_weight_kg of a shipment   1/100 kg (the result of round(x, 2))   *)
(*   total_charge of a rate          NT$                                    *)
(*   exchange rate                   1/10 NT$ per US$                       *)
(*   markup                          1/10 percent                           *)
(* and quotients by exact fractions <<numerator, denominator>>.             *)
(***************************************************************************)
EXTENDS Integers, Sequences, FiniteSets, TLC

VARIABLES
    pack_options,     \* calculate_shipment: argument options
    pack_quantity,    \* calculate_shipment: argument quantity_sets
    pack_result,      \* calculate_shipment: what the call produced, or NoCall
    response_json,    \* parse_rate_response: argument response_json
    parsed_rates,     \* parse_rate_response: Returned(list), or NoCall
    price_args,       \* pricing row: [cost_ntd, exchange, markup, weight]
    price_row,        \* pricing row: what the computation produced, or NoCall
    session_state,    \* st.session_state: a function on the keys present
    intl_form,        \* international flow: the widgets' current values
    carrier_reply,    \* international flow: get_rate_quote in the last rerun
    intl_ui,          \* international flow: what the last rerun displayed
    saved_quote,      \* international flow: the record the last rerun saved
    token_cache,      \* fedex_api._token_cache
    fx_now,           \* datetime.now(), in ticks
    fx_pc,            \* get_rate_quote: where the call stands
    fx_token,         \* get_rate_quote: local variable token
    fx_sent,          \* get_rate_quote: the rate requests posted by the call
    fx_refresh,       \* get_rate_quote: the forced token refresh of the call
    fx_result,        \* get_rate_quote: how the call ended
    fx_issued,        \* tokens the OAuth endpoint has issued so far
    fx_account,       \* get_rate_quote: argument account_number
    fx_tokens,        \* OAuth endpoint: the request behind each issued token
    sheet,            \* quote log worksheet: its rows, top to bottom
    hist_now,         \* datetime.now() of the history service, in ticks
    hist_op,          \* history service: the last operation and its argument
    history_result,   \* history service: what the last load_history returned
    products_sheet,   \* catalog: ws.get_all_records() of the products sheet
    products_json,    \* catalog: the local products.json
    load_result,      \* catalog: what load_products produced, or NoCall
    app_page,         \* app.py: what the run did after loading the catalog
    caller_options,   \* repeated calls: the caller's options list object
    call_log,         \* repeated calls: argument values and result of each
    fixed_args,       \* domestic fixed cost: [total_sets, manual_input]
    fixed_result,     \* domestic fixed cost: what the flow computed, or NoCall
    dom_form,         \* domestic flow: the widgets' current values
    dom_reply,        \* domestic flow: get_domestic_rates in the last rerun
    dom_ui,           \* domestic flow: what the last rerun displayed
    sent,             \* per flow: the carrier request behind the stored rates
    cleared,          \* per flow: what the stale-result check did last rerun
    rows_num,         \* per flow: st.session_state["{pfx}_num_product_rows"]
    rows_widgets,     \* per flow: the stored values of the rows' model widgets
    quote_log,        \* product rows: the products of the quotes saved so far
    rows_op,          \* product rows: the last interaction
    rows_models       \* product rows: the model names of the catalogue

packVars == <<pack_options, pack_quantity, pack_result>>
rateVars == <<response_json, parsed_rates>>
priceVars == <<price_args, price_row>>
flowVars == <<session_state, intl_form, carrier_reply, intl_ui, saved_quote>>

fedexVars == <<token_cache, fx_now, fx_pc, fx_token, fx_sent, fx_refresh,
               fx_result, fx_issued, fx_account, fx_tokens>>
coreVars == <<packVars, rateVars, priceVars, flowVars>>
historyVars == <<sheet, hist_now, hist_op, history_result>>
catalogVars == <<products_sheet, products_json, load_result, app_page>>
callVars == <<caller_options, call_log>>
fixedVars == <<fixed_args, fixed_result>>
domVars == <<dom_form, dom_reply, dom_ui, sent, cleared>>
rowsVars == <<rows_num, rows_widgets, quote_log, rows_op, rows_models>>
viewVars == <<domVars, rowsVars>>
laterVars == <<fedexVars, historyVars, catalogVars, callVars, fixedVars,
               viewVars>>

vars == <<pack_options, pack_quantity, pack_result, response_json, parsed_rates,
          price_args, price_row, session_state, intl_form, carrier_reply, intl_ui,
          saved_quote, fedexVars, historyVars, catalogVars, callVars, fixedVars,
          viewVars>>

-----------------------------------------------------------------------------
(* Bounds of the packing inputs *)

MaxOptions == 3
MaxSets == 4
MaxQuantity == 7

\* sets_per_carton values a catalog row can carry: int() of a sheet cell is
\* any integer, so 0 and a negative value are included.
SetsValues == (-1)..MaxSets

\* weight_kg values in grams: 3.954 kg, 8.0 kg, 15.0 kg
WeightValues == {3954, 8000, 15000}

PackingOption == [sets_per_carton : SetsValues, weight_kg : WeightValues]

RECURSIVE SeqsUpTo(_, _)
SeqsUpTo(S, n) ==
    IF n = 0 THEN {<<>>}
    ELSE LET shorter == SeqsUpTo(S, n - 1)
         IN shorter \cup {Append(s, x) : s \in {t \in shorter : Len(t) = n - 1}, x \in S}

OptionLists == SeqsUpTo(PackingOption, MaxOptions)
Quantities == 0..MaxQuantity

NoCall == [status |-> "none"]

-----------------------------------------------------------------------------
(* services/product_data.py: calculate_shipment *)

\* sorted(options, key=sets_per_carton, reverse=True): Python's sort is
\* stable, also with reverse=True, so options of equal size keep input order.
RECURSIVE InsertDesc_Unstable(_, _)
InsertDesc_Unstable(sorted, o) ==
    IF sorted = <<>> THEN <<o>>
    ELSE IF Head(sorted).sets_per_carton > o.sets_per_carton
         THEN <<Head(sorted)>> \o InsertDesc_Unstable(Tail(sorted), o)
         ELSE <<o>> \o sorted

RECURSIVE InsertDesc(_, _)
InsertDesc(sorted, o) ==
    IF sorted = <<>> THEN <<o>>
    ELSE IF Head(sorted).sets_per_carton >= o.sets_per_carton
         THEN <<Head(sorted)>> \o InsertDesc(Tail(sorted), o)
         ELSE <<o>> \o sorted

SortedDesc_InputOrder(options) == options

RECURSIVE SortedDesc(_)
SortedDesc(options) ==
    IF options = <<>> THEN <<>>
    ELSE InsertDesc(SortedDesc(SubSeq(options, 1, Len(options) - 1)),
                    options[Len(options)])

GreedyStep_RecordsZero(acc, opt) ==
    LET s == opt.sets_per_carton
        remaining == acc.remaining
    IN IF s <= 0 \/ remaining <= 0 THEN acc
       ELSE LET count == remaining \div s
            IN [breakdown |-> Append(acc.breakdown,
                                     [sets_per_carton |-> s,
                                      weight_kg |-> opt.weight_kg,
                                      count |-> count]),
                remaining |-> remaining - count * s]

\* One iteration of "for opt in opts_sorted": acc = [breakdown, remaining].
GreedyStep(acc, opt) ==
    LET s == opt.sets_per_carton
        remaining == acc.remaining
    IN IF s <= 0 \/ remaining <= 0 THEN acc
       ELSE LET count == remaining \div s
            IN IF count > 0
               THEN [breakdown |-> Append(acc.breakdown,
                                          [sets_per_carton |-> s,
                                           weight_kg |-> opt.weight_kg,
                                           count |-> count]),
                     remaining |-> remaining - count * s]
               ELSE acc

GreedyPass_FirstOnly(opts_sorted, acc) ==
    IF opts_sorted = <<>> THEN acc
    ELSE GreedyStep(acc, Head(opts_sorted))

\* "for opt in opts_sorted": every option takes its turn, largest first.
RECURSIVE GreedyPass(_, _)
GreedyPass(opts_sorted, acc) ==
    IF opts_sorted = <<>> THEN acc
    ELSE GreedyPass(Tail(opts_sorted), GreedyStep(acc, Head(opts_sorted)))

\* math.ceil(a / b) for b # 0 (Python true division, then ceiling).
CeilDiv(a, b) ==
    IF b > 0 THEN -((-a) \div b)
    ELSE -(a \div (-b))

\* round(x, 2) of a weight given in grams, in 1/100 kg (round half to even).
Round2(grams) ==
    LET q == grams \div 10
        r == grams % 10
    IN IF r < 5 THEN q
       ELSE IF r > 5 THEN q + 1
       ELSE IF q % 2 = 0 THEN q ELSE q + 1

RECURSIVE SumCount(_)
SumCount(breakdown) ==
    IF breakdown = <<>> THEN 0
    ELSE Head(breakdown).count + SumCount(Tail(breakdown))

RECURSIVE SumWeight(_)
SumWeight(breakdown) ==
    IF breakdown = <<>> THEN 0
    ELSE Head(breakdown).weight_kg * Head(breakdown).count
         + SumWeight(Tail(breakdown))

RoundUp_WithLargest(opts_sorted, greedy) ==
    IF greedy.remaining > 0 /\ opts_sorted # <<>>
    THEN LET largest == opts_sorted[1]
         IN IF largest.sets_per_carton = 0
            THEN [status |-> "ZeroDivisionError", breakdown |-> <<>>]
            ELSE [status |-> "ok",
                  breakdown |-> Append(greedy.breakdown,
                      [sets_per_carton |-> largest.sets_per_carton,
                       weight_kg |-> largest.weight_kg,
                       count |-> CeilDiv(greedy.remaining,
                                         largest.sets_per_carton)])]
    ELSE [status |-> "ok", breakdown |-> greedy.breakdown]

\* The breakdown after the round-up step, or the exception it raises.
RoundUp(opts_sorted, greedy) ==
    IF greedy.remaining > 0 /\ opts_sorted # <<>>
    THEN LET smallest == opts_sorted[Len(opts_sorted)]
         IN IF smallest.sets_per_carton = 0
            THEN [status |-> "ZeroDivisionError", breakdown |-> <<>>]
            ELSE [status |-> "ok",
                  breakdown |-> Append(greedy.breakdown,
                      [sets_per_carton |-> smallest.sets_per_carton,
                       weight_kg |-> smallest.weight_kg,
                       count |-> CeilDiv(greedy.remaining,
                                         smallest.sets_per_carton)])]
    ELSE [status |-> "ok", breakdown |-> greedy.breakdown]

calculate_shipment(options, quantity_sets) ==
    LET opts_sorted == SortedDesc(options)
        greedy == GreedyPass(opts_sorted,
                             [breakdown |-> <<>>, remaining |-> quantity_sets])
        packed == RoundUp(opts_sorted, greedy)
    IN IF packed.status = "ok"
       THEN [status |-> "ok",
             num_cartons |-> SumCount(packed.breakdown),
             total_weight_kg |-> Round2(SumWeight(packed.breakdown)),
             breakdown |-> packed.breakdown]
       ELSE [status |-> packed.status,
             num_cartons |-> 0,
             total_weight_kg |-> 0,
             breakdown |-> <<>>]

-----------------------------------------------------------------------------
(* services/fedex_api.py: parse_rate_response *)

MaxDetails == 3

\* An optional JSON field: <<>> when the key is missing, <<v>> when present.
Missing == <<>>
Present(v) == <<v>>

\* ratedShipmentDetails of one rateReplyDetails entry: none, one LIST rate,
\* a LIST rate followed by an ACCOUNT rate, a rate without totalNetCharge.
RatedShipmentDetails ==
    { <<>>,
      << [rateType |-> "LIST", totalNetCharge |-> Present(100)] >>,
      << [rateType |-> "LIST", totalNetCharge |-> Present(90)] >>,
      << [rateType |-> "LIST", totalNetCharge |-> Present(90)],
         [rateType |-> "ACCOUNT", totalNetCharge |-> Present(200)] >>,
      << [rateType |-> "LIST", totalNetCharge |-> Missing] >> }

\* commit.dateDetail.dayFormat: missing, text that is no ISO date, or the
\* date `days` days after today.
NoDayFormat == [kind |-> "missing", days |-> 0]
BadDayFormat == [kind |-> "invalid", days |-> 0]
DayFormat(n) == [kind |-> "date", days |-> n]
DayFormats == {NoDayFormat, BadDayFormat, DayFormat(0), DayFormat(3)}

ServiceTypes == {"A", "B"}

\* The entries of output.rateReplyDetails the model draws from.  A one-rate
\* entry comes with each of two delivery dates, so that two entries of one
\* service and one charge can differ.
RateReplyDetail ==
    { d \in [serviceType : ServiceTypes,
             ratedShipmentDetails : RatedShipmentDetails,
             dayFormat : DayFormats] :
        \/ /\ Len(d.ratedShipmentDetails) = 1
           /\ d.ratedShipmentDetails[1].totalNetCharge # Missing
           /\ d.dayFormat \in {NoDayFormat, DayFormat(3)}
        \/ /\ Len(d.ratedShipmentDetails) = 2
           /\ d.dayFormat = DayFormat(0)
        \/ /\ Len(d.ratedShipmentDetails) = 1
           /\ d.ratedShipmentDetails[1].totalNetCharge = Missing
           /\ d.dayFormat = BadDayFormat
        \/ /\ d.ratedShipmentDetails = <<>>
           /\ d.dayFormat = NoDayFormat }

\* A response without the "output" key.
NoOutput == [error |-> "no output"]

ResponsesUpTo(n) ==
    {NoOutput} \cup {[rateReplyDetails |-> ds] : ds \in SeqsUpTo(RateReplyDetail, n)}

\* response_json.get("output", {}).get("rateReplyDetails", [])
RateReplyDetails(resp) ==
    IF "rateReplyDetails" \in DOMAIN resp THEN resp.rateReplyDetails ELSE <<>>

\* The rate of a detail, as an optional: the first ACCOUNT rate, else the
\* first rate, else none.
RECURSIVE FirstAccount(_)
FirstAccount(rated_details) ==
    IF rated_details = <<>> THEN Missing
    ELSE IF Head(rated_details).rateType = "ACCOUNT"
         THEN Present(Head(rated_details))
         ELSE FirstAccount(Tail(rated_details))

BestRate(rated_details) ==
    IF FirstAccount(rated_details) # Missing THEN FirstAccount(rated_details)
    ELSE IF rated_details # <<>> THEN Present(rated_details[1])
    ELSE Missing

\* float(best_rate.get("totalNetCharge", 0))
TotalCharge(best_rate) ==
    IF best_rate.totalNetCharge = Missing THEN 0 ELSE best_rate.totalNetCharge[1]

\* transit_days: "N/A" without a parseable date, else str(days) of the days
\* from today, and "1" when that is not positive.
DaysText(n) == CASE n = 1 -> "1" [] n = 2 -> "2" [] n = 3 -> "3" [] n = 4 -> "4"
                 [] OTHER -> "many"

TransitDays(day_format) ==
    IF day_format.kind # "date" THEN "N/A"
    ELSE IF day_format.days > 0 THEN DaysText(day_format.days) ELSE "1"

\* delivery_date: "" when missing, the text as received when it does not
\* parse, else strftime("%m/%d (%a)") of the date.
DeliveryDate(day_format) ==
    CASE day_format.kind = "missing" -> [text |-> "", days |-> 0]
      [] day_format.kind = "invalid" -> [text |-> "as received", days |-> 0]
      [] OTHER -> [text |-> "%m/%d (%a)", days |-> day_format.days]

\* The loop building raw_results: details without a rate are skipped.  The
\* modelled details carry neither serviceName nor currency, so service_name
\* is the service type and currency the default "TWD".
RECURSIVE RawResults(_)
RawResults(rate_details) ==
    IF rate_details = <<>> THEN <<>>
    ELSE LET detail == Head(rate_details)
             best_rate == BestRate(detail.ratedShipmentDetails)
         IN (IF best_rate = Missing THEN <<>>
             ELSE << [service_type |-> detail.serviceType,
                      service_name |-> detail.serviceType,
                      currency |-> "TWD",
                      total_charge |-> TotalCharge(best_rate[1]),
                      transit_days |-> TransitDays(detail.dayFormat),
                      delivery_date |-> DeliveryDate(detail.dayFormat)] >>)
            \o RawResults(Tail(rate_details))

Cheaper_OrEqual(r, best) == r.total_charge <= best.total_charge

\* Whether r replaces the entry kept so far for its service type.
Cheaper(r, best) == r.total_charge < best.total_charge

\* best_by_type after the loop over raw_results, as the sequence of its
\* values: a dict keeps its keys in order of first insertion, and an
\* assignment to an existing key replaces the value in place.
RECURSIVE BestByType(_, _)
BestByType(raw_results, best) ==
    IF raw_results = <<>> THEN best
    ELSE LET r == Head(raw_results)
             at == {i \in 1..Len(best) : best[i].service_type = r.service_type}
         IN BestByType(Tail(raw_results),
               IF at = {} THEN Append(best, r)
               ELSE LET i == CHOOSE i \in at : TRUE
                    IN IF Cheaper(r, best[i]) THEN [best EXCEPT ![i] = r]
                       ELSE best)

\* sorted(values, key=total_charge): stable insertion, ascending.
RECURSIVE InsertByCharge(_, _)
InsertByCharge(sorted, r) ==
    IF sorted = <<>> THEN <<r>>
    ELSE IF Head(sorted).total_charge <= r.total_charge
         THEN <<Head(sorted)>> \o InsertByCharge(Tail(sorted), r)
         ELSE <<r>> \o sorted

SortedByCharge_Unsorted(rates) == rates

RECURSIVE SortedByCharge(_)
SortedByCharge(rates) ==
    IF rates = <<>> THEN <<>>
    ELSE InsertByCharge(SortedByCharge(SubSeq(rates, 1, Len(rates) - 1)),
                        rates[Len(rates)])

parse_rate_response(resp) ==
    SortedByCharge(BestByType(RawResults(RateReplyDetails(resp)), <<>>))

\* What a call of parse_rate_response produced: no statement of it raises
\* for the responses above.
Returned(rates) == [status |-> "ok", rates |-> rates]

-----------------------------------------------------------------------------
(* views/quote.py: the pricing of one rate in the results section *)

\* Python's a / b on exact fractions <<numerator, denominator>>; a zero
\* divisor raises ZeroDivisionError.
ZeroDivisionError == <<0, 0>>
Zero == <<0, 1>>
TrueDivide(a, b) == IF b = 0 THEN ZeroDivisionError ELSE <<a, b>>
Times(x, y) ==
    IF x = ZeroDivisionError \/ y = ZeroDivisionError THEN ZeroDivisionError
    ELSE <<x[1] * y[1], x[2] * y[2]>>

UsdCost_Unguarded(cost_ntd, exchange) == TrueDivide(cost_ntd * 10, exchange)

\* usd_cost = cost_ntd / current_exchange if current_exchange > 0 else 0
\* (exchange in 1/10 NT$ per US$)
UsdCost(cost_ntd, exchange) ==
    IF exchange > 0 THEN TrueDivide(cost_ntd * 10, exchange) ELSE Zero

QuotedUsd_NoMarkup(usd_cost, markup) == usd_cost

\* quoted_usd = usd_cost * (1 + current_markup / 100)  (markup in 1/10 %)
QuotedUsd(usd_cost, markup) == Times(usd_cost, <<1000 + markup, 1000>>)

CostPerKg_Unguarded(cost_ntd, weight) == TrueDivide(cost_ntd * 100, weight)

\* cost_per_kg = cost_ntd / combined_weight if combined_weight > 0 else 0
\* (weight in 1/100 kg)
CostPerKg(cost_ntd, weight) ==
    IF weight > 0 THEN TrueDivide(cost_ntd * 100, weight) ELSE Zero

\* Lines 507-514 for one rate: the three values, or the exception raised.
PricingRow(cost_ntd, exchange, markup, weight) ==
    LET usd_cost == UsdCost(cost_ntd, exchange)
        quoted_usd == QuotedUsd(usd_cost, markup)
        cost_per_kg == CostPerKg(cost_ntd, weight)
    IN IF ZeroDivisionError \in {usd_cost, quoted_usd, cost_per_kg}
       THEN [status |-> "ZeroDivisionError",
             usd_cost |-> Zero, quoted_usd |-> Zero, cost_per_kg |-> Zero]
       ELSE [status |-> "ok",
             usd_cost |-> usd_cost, quoted_usd |-> quoted_usd,
             cost_per_kg |-> cost_per_kg]

-----------------------------------------------------------------------------
(* views/quote.py: the international flow.  Streamlit reruns the script     *)
(* once per interaction: a rerun sees one changed widget, or the pressed    *)
(* query button.  The model has one product row; the destination is a ZIP   *)
(* code, or the ZIP and state parsed from a pasted address (dest_city and   *)
(* dest_street are not modelled and count as empty).                        *)

MaxFlowDetails == 1

\* Bind(value, F) is F(value) with the value computed once.
Bind(value, F(_)) == CHOOSE r \in {F(v) : v \in {value}} : TRUE

\* st.session_state as a function: pop(key, None) and item assignment.
Pop(sess, key) == [k \in DOMAIN sess \ {key} |-> sess[k]]
Put(sess, key, value) ==
    [k \in DOMAIN sess \cup {key} |-> IF k = key THEN value ELSE sess[k]]

\* The loaded catalog: model -> packing options.
Catalog ==
    [m \in {"K1", "K2"} |->
        IF m = "K1"
        THEN << [sets_per_carton |-> 4, weight_kg |-> 15000],
                [sets_per_carton |-> 2, weight_kg |-> 8000] >>
        ELSE << [sets_per_carton |-> 1, weight_kg |-> 3954] >>]

\* No selection in a selectbox (index=None), and the choices: the catalog's
\* models and a quick model "K0" the catalog does not hold.
NoModel == ""
FormModels == {NoModel, "K0", "K1", "K2"}
FormQuantities == {1, 5}
FormZips == {"", "90001"}
FormAccounts == {"", "123456789"}
FormExchangeRates == {300, 315}
FormMarkups == {150, 200}

\* Extra Weight widget: its default 0.5 kg and one other entry (1/100 kg).
ExtraWeight == 50
FormExtraWeights == {ExtraWeight, 100}

\* (dest_zip, dest_state) of _render_destination_section: nothing entered,
\* a ZIP code, an address with ZIP and state.
FormDestinations == {<<"", "">>, <<"90001", "">>, <<"90001", "CA">>}

get_packing_options(products, model) ==
    IF model \in DOMAIN products THEN products[model] ELSE <<>>

\* _render_product_section with one row: the entries and totals, or the
\* message shown when it returns None.
ProductSection(form) ==
    Bind(calculate_shipment(get_packing_options(Catalog, form.model),
                            form.quantity), LAMBDA shipment_i :
    LET options_i == get_packing_options(Catalog, form.model)
        none(alert) == [ok |-> FALSE, alert |-> alert, product_entries |-> <<>>,
                        total_cartons |-> 0, total_weight_kg |-> 0,
                        total_sets |-> 0]
    IN IF form.model = NoModel THEN none("info_select_product")
       ELSE IF options_i = <<>> THEN none("warning_no_packing_data")
       ELSE [ok |-> TRUE, alert |-> "none",
             product_entries |-> << [model |-> form.model,
                                     quantity_sets |-> form.quantity,
                                     shipment |-> shipment_i] >>,
             total_cartons |-> shipment_i.num_cartons,
             total_weight_kg |-> shipment_i.total_weight_kg,
             total_sets |-> form.quantity])

ProductsKey(product_entries) ==
    [i \in 1..Len(product_entries) |->
        <<product_entries[i].model, product_entries[i].quantity_sets>>]

\* state_key.replace("last_query", "last_rates")
RatesKey(state_key) ==
    IF state_key = "intl_last_query" THEN "intl_last_rates" ELSE "dom_last_rates"

_clear_old_results_if_changed_IgnoresZip(sess, product_entries, dest_zip, dest_state, state_key) ==
    IF state_key \notin DOMAIN sess THEN sess
    ELSE LET q == sess[state_key]
         IN IF \/ ProductsKey(product_entries) # q.products_key
               \/ q.dest_state # dest_state
            THEN Pop(Pop(sess, RatesKey(state_key)), state_key)
            ELSE sess

_clear_old_results_if_changed_KeepsQuery(sess, product_entries, dest_zip, dest_state, state_key) ==
    IF state_key \notin DOMAIN sess THEN sess
    ELSE LET q == sess[state_key]
         IN IF \/ ProductsKey(product_entries) # q.products_key
               \/ q.dest_zip # dest_zip
               \/ q.dest_state # dest_state
            THEN Pop(sess, RatesKey(state_key))
            ELSE sess

_clear_old_results_if_changed_Always(sess, product_entries, dest_zip, dest_state, state_key) ==
    Pop(Pop(sess, RatesKey(state_key)), state_key)

_clear_old_results_if_changed(sess, product_entries, dest_zip, dest_state, state_key) ==
    IF state_key \notin DOMAIN sess THEN sess
    ELSE LET q == sess[state_key]
         IN IF \/ ProductsKey(product_entries) # q.products_key
               \/ q.dest_zip # dest_zip
               \/ q.dest_state # dest_state
            THEN Pop(Pop(sess, RatesKey(state_key)), state_key)
            ELSE sess

\* What get_rate_quote did in a rerun.
NotCalled == [kind |-> "not called", json |-> NoOutput]
Raised == [kind |-> "raised", json |-> NoOutput]
Response(json) == [kind |-> "response", json |-> json]

\* The responses the flow's carrier answers with: those of the parser's
\* domain whose entries carry no delivery date.
FlowReplyDetail == {d \in RateReplyDetail : d.dayFormat = NoDayFormat}

FlowResponses ==
    {NoOutput} \cup {[rateReplyDetails |-> ds] :
                        ds \in SeqsUpTo(FlowReplyDetail, MaxFlowDetails)}

CarrierReplies == {Raised} \cup {Response(j) : j \in FlowResponses}

NoRates_Never(rates) == FALSE

\* "if not rates"
NoRates(rates) == rates = <<>>

\* SERVICE_ORDER.get(service_type, 99)
ServiceOrder(service_type) ==
    CASE service_type = "FEDEX_INTERNATIONAL_PRIORITY_EXPRESS" -> 0
      [] service_type \in {"INTERNATIONAL_PRIORITY",
                           "FEDEX_INTERNATIONAL_PRIORITY"} -> 1
      [] service_type \in {"INTERNATIONAL_ECONOMY",
                           "FEDEX_INTERNATIONAL_ECONOMY"} -> 2
      [] OTHER -> 99

RECURSIVE InsertByServiceOrder(_, _)
InsertByServiceOrder(sorted, r) ==
    IF sorted = <<>> THEN <<r>>
    ELSE IF ServiceOrder(Head(sorted).service_type) <= ServiceOrder(r.service_type)
         THEN <<Head(sorted)>> \o InsertByServiceOrder(Tail(sorted), r)
         ELSE <<r>> \o sorted

RECURSIVE SortedByServiceOrder(_)
SortedByServiceOrder(rates) ==
    IF rates = <<>> THEN <<>>
    ELSE InsertByServiceOrder(
            SortedByServiceOrder(SubSeq(rates, 1, Len(rates) - 1)),
            rates[Len(rates)])

\* The results section: one priced row per stored rate.
ResultRows(sess, exchange_rate, markup_percent) ==
    IF "intl_last_rates" \in DOMAIN sess /\ "intl_last_query" \in DOMAIN sess
    THEN LET sorted_rates == SortedByServiceOrder(sess["intl_last_rates"])
             combined_weight ==
                sess["intl_last_query"].combined_shipment.total_weight_kg
         IN [i \in 1..Len(sorted_rates) |->
                [service_type |-> sorted_rates[i].service_type,
                 cost_ntd |-> sorted_rates[i].total_charge,
                 transit_days |-> sorted_rates[i].transit_days,
                 pricing |-> PricingRow(sorted_rates[i].total_charge,
                                        exchange_rate, markup_percent,
                                        combined_weight)]]
    ELSE <<>>

Shown(sess, alert, results, reply) ==
    [session |-> sess, ui |-> [alert |-> alert, results |-> results],
     reply |-> reply]

\* The query button's branch and the results section, after the products,
\* the destination and the stale-result check of this rerun.
AfterClear(sess2, product, form, pressed, reply, rates) ==
    LET combined_weight == product.total_weight_kg + form.extra_weight
        dest_zip == form.dest_zip
        dest_state == form.dest_state
        dest_city == ""
        account_number == sess2["fedex_account"]
        query == [shipping_type |-> "international",
                  product_entries |-> product.product_entries,
                  products_key |-> ProductsKey(product.product_entries),
                  combined_shipment |->
                     [num_cartons |-> product.total_cartons,
                      total_weight_kg |-> combined_weight],
                  dest_state |-> dest_state,
                  dest_zip |-> dest_zip,
                  exchange_rate |-> form.exchange_rate,
                  markup_percent |-> form.markup_percent]
    IN IF ~pressed
       THEN Shown(sess2, "none",
                  ResultRows(sess2, form.exchange_rate, form.markup_percent),
                  NotCalled)
       ELSE IF account_number = ""
            THEN Shown(sess2, "error_no_account", <<>>, NotCalled)
       ELSE IF dest_zip = "" /\ ~(dest_city # "" /\ dest_state # "")
            THEN Shown(sess2, "error_no_destination", <<>>, NotCalled)
       ELSE IF reply.kind = "raised"
            THEN Shown(sess2, "error_query_failed", <<>>, reply)
       ELSE IF NoRates(rates)
            THEN Shown(sess2, "warning_no_rates", <<>>, reply)
       ELSE Bind(Put(Put(sess2, "intl_last_rates", rates),
                     "intl_last_query", query),
                 LAMBDA sess3 :
                    Shown(sess3, "none",
                          ResultRows(sess3, form.exchange_rate,
                                     form.markup_percent),
                          reply))

\* One rerun of app.py with the international tab: the sidebar stores the
\* account, then _render_international_flow runs with the widgets' values
\* `form`, the query button pressed or not, and `reply` the outcome of
\* get_rate_quote should it be called.
RenderInternational(sess0, form, pressed, reply) ==
    Bind(Put(sess0, "fedex_account", form.account), LAMBDA sess1 :
    Bind(ProductSection(form), LAMBDA product :
       IF ~product.ok THEN Shown(sess1, product.alert, <<>>, NotCalled)
       ELSE Bind(_clear_old_results_if_changed(sess1, product.product_entries,
                                               form.dest_zip, form.dest_state,
                                               "intl_last_query"),
                 LAMBDA sess2 :
                    Bind(parse_rate_response(reply.json), LAMBDA rates :
                       AfterClear(sess2, product, form, pressed, reply, rates)))))

RECURSIVE Gcd(_, _)
Gcd(a, b) == IF b = 0 THEN a ELSE Gcd(b, a % b)

\* The fraction a / b in lowest terms, for a >= 0 and b > 0.
Lowest(a, b) == <<a \div Gcd(a, b), b \div Gcd(a, b)>>

\* round(x, 2) of a fraction x >= 0, in 1/100: the nearest hundredth, the
\* even one at a tie.
RoundCents(x) ==
    LET n == 100 * Lowest(x[1], x[2])[1]
        d == Lowest(x[1], x[2])[2]
        q == n \div d
        r == n % d
    IN IF 2 * r < d THEN q
       ELSE IF 2 * r > d THEN q + 1
       ELSE IF q % 2 = 0 THEN q ELSE q + 1

\* No save button pressed in a rerun.
NoSave == [shipping_type |-> "none"]

RateData_FromRoundedUsd(rate, pricing, current_exchange, current_markup) ==
    [service_type |-> rate.service_type,
     service_name |-> rate.service_name,
     shipping_cost_ntd |-> rate.total_charge,
     exchange_rate |-> current_exchange,
     usd_cost |-> RoundCents(pricing.usd_cost),
     markup_percent |-> current_markup,
     quoted_price_usd |->
        RoundCents(QuotedUsd(<<RoundCents(pricing.usd_cost), 100>>,
                             current_markup)),
     cost_per_kg_ntd |-> RoundCents(pricing.cost_per_kg)]

\* The dict the save button passes to _save_quote_common (values rounded
\* to 2 decimals are in 1/100).
RateData(rate, pricing, current_exchange, current_markup) ==
    [service_type |-> rate.service_type,
     service_name |-> rate.service_name,
     shipping_cost_ntd |-> rate.total_charge,
     exchange_rate |-> current_exchange,
     usd_cost |-> RoundCents(pricing.usd_cost),
     markup_percent |-> current_markup,
     quoted_price_usd |-> RoundCents(pricing.quoted_usd),
     cost_per_kg_ntd |-> RoundCents(pricing.cost_per_kg)]

\* The record _save_quote_common hands to save_quote: the strings joined
\* with "; " are the sequences of their parts.
_save_quote_common(query, rate_data, shipping_type) ==
    LET entries == query.product_entries
    IN [shipping_type |-> shipping_type,
        product_model |-> [i \in 1..Len(entries) |-> entries[i].model],
        packing_config |->
            [i \in 1..Len(entries) |->
                [model |-> entries[i].model,
                 parts |-> [j \in 1..Len(entries[i].shipment.breakdown) |->
                     <<entries[i].shipment.breakdown[j].count,
                       entries[i].shipment.breakdown[j].sets_per_carton>>]]],
        quantity_sets |-> [i \in 1..Len(entries) |-> entries[i].quantity_sets],
        num_cartons |-> query.combined_shipment.num_cartons,
        total_weight_kg |-> query.combined_shipment.total_weight_kg,
        destination_state |-> query.dest_state,
        destination_zip |-> query.dest_zip,
        rate_data |-> rate_data]

\* The save button of row i of the results section.
SaveButton(sess, form, i) ==
    LET rate == SortedByServiceOrder(sess["intl_last_rates"])[i]
        row == ResultRows(sess, form.exchange_rate, form.markup_percent)[i]
    IN _save_quote_common(sess["intl_last_query"],
                          RateData(rate, row.pricing, form.exchange_rate,
                                   form.markup_percent),
                          "international")

\* The session before any interaction: the first run of the script, with
\* no product selected.
FirstForm(account) ==
    [account |-> account, model |-> NoModel, quantity |-> 1,
     extra_weight |-> ExtraWeight, dest_zip |-> "", dest_state |-> "",
     exchange_rate |-> 300, markup_percent |-> 150]

FlowIdle ==
    /\ intl_form = FirstForm("")
    /\ session_state = [k \in {"fedex_account"} |-> ""]
    /\ carrier_reply = NotCalled
    /\ intl_ui = [alert |-> "info_select_product", results |-> <<>>]
    /\ saved_quote = NoSave

-----------------------------------------------------------------------------
(* services/fedex_api.py: get_oauth_token and get_rate_quote.  One call of  *)
(* get_rate_quote runs at a time; each HTTP exchange is one step.           *)

MaxNow == 3
MaxTokens == 4

NoToken == 0
EmptyCache == [token |-> NoToken, expires_at |-> 0]

\* expires_in - 300 seconds of a token response, in ticks
TokenLives == {1, 2}

\* Status codes of the rate endpoint's responses.
RateStatuses == {200, 401, 500}

\* The payload of a call is built once, before the first post.
Payload == "payload"

\* Account numbers get_rate_quote is called with.
FedexAccounts == {"111111111", "222222222"}
NoAccount == ""

CacheValid_AtExpiry(cache, now) ==
    cache.token # NoToken /\ cache.expires_at # 0 /\ now <= cache.expires_at

\* _token_cache["token"] and _token_cache["expires_at"]
\* and now < _token_cache["expires_at"]
CacheValid(cache, now) ==
    cache.token # NoToken /\ cache.expires_at # 0 /\ now < cache.expires_at

\* get_oauth_token returns the cached token without a request.
ReturnsCached(cache, now, force_refresh) ==
    ~force_refresh /\ CacheValid(cache, now)

\* The token request of get_oauth_token(account_number), posted at `now`,
\* and the token the endpoint issues for it, valid for expires_in seconds
\* (life = expires_in - 300).
TokenRequest(account_number, now, life) ==
    [account_number |-> account_number, at |-> now, life |-> life]

NeedsRetry_AnyError(status) == status # 200

\* response.status_code == 401
NeedsRetry(status) == status = 401

\* response.raise_for_status()
RaisesForStatus(status) == status >= 400

FedexIdle ==
    /\ token_cache = EmptyCache
    /\ fx_now = 0
    /\ fx_pc = "idle"
    /\ fx_token = NoToken
    /\ fx_sent = <<>>
    /\ fx_refresh = "none"
    /\ fx_result = "none"
    /\ fx_issued = 0
    /\ fx_account = NoAccount
    /\ fx_tokens = <<>>

-----------------------------------------------------------------------------
(* services/history.py: the quote log worksheet, save_quote, load_history.  *)
(* The clock counts ticks of 30 days.  A cell holds text: a string, or the  *)
(* decimal digits of a number.                                              *)

MaxClock == 5
MaxRows == 3

\* timedelta(days=90)
Retention == 3

COLUMNS ==
    << "timestamp", "product_model", "packing_config", "quantity_sets",
       "num_cartons", "total_weight_kg", "destination_state",
       "destination_zip", "service_type", "service_name",
       "shipping_cost_ntd", "exchange_rate", "usd_cost", "markup_percent",
       "quoted_price_usd", "cost_per_kg_ntd" >>

\* SHEET_HEADER[i]: the label of COLUMNS[i]
ColumnLabel(c) == [s |-> "label of " \o c, digits |-> <<>>]
SHEET_HEADER == [i \in 1..Len(COLUMNS) |-> ColumnLabel(COLUMNS[i])]

\* Python values of a quote record, and str() of them.
StrValue(text) == [type |-> "str", s |-> text, n |-> 0]
NumValue(n) == [type |-> "num", s |-> "", n |-> n]

RECURSIVE Digits(_)
Digits(n) == IF n < 10 THEN <<n>> ELSE Append(Digits(n \div 10), n % 10)

RECURSIVE Number(_)
Number(digits) ==
    IF Len(digits) = 1 THEN digits[1]
    ELSE 10 * Number(SubSeq(digits, 1, Len(digits) - 1)) + digits[Len(digits)]

EmptyText == [s |-> "", digits |-> <<>>]
Str(v) == IF v.type = "str" THEN [s |-> v.s, digits |-> <<>>]
          ELSE [s |-> "", digits |-> Digits(v.n)]

\* datetime.strftime and strptime with "%Y-%m-%d %H:%M:%S"
TimeFormat == "%Y-%m-%d %H:%M:%S"
Strftime(t) == [s |-> TimeFormat, digits |-> Digits(t)]
IsTimeText(cell) == cell.s = TimeFormat /\ cell.digits # <<>>
Strptime(cell) == Number(cell.digits)

\* The records handed to save_quote: one as _save_quote_common builds it
\* (its shipping_type is no column), one with most keys missing.
QuoteRecords ==
    { [k \in {"shipping_type", "product_model", "packing_config",
              "quantity_sets", "num_cartons", "total_weight_kg",
              "destination_state", "destination_zip", "service_type",
              "service_name", "shipping_cost_ntd", "exchange_rate",
              "usd_cost", "markup_percent", "quoted_price_usd",
              "cost_per_kg_ntd"} |->
          CASE k \in {"shipping_type", "product_model", "packing_config",
                      "quantity_sets", "destination_state", "destination_zip",
                      "service_type", "service_name"} -> StrValue("text of " \o k)
            [] k = "num_cartons" -> NumValue(2)
            [] k = "quoted_price_usd" -> NumValue(381)
            [] OTHER -> NumValue(100)],
      [k \in {"product_model", "quoted_price_usd"} |->
          IF k = "product_model" THEN StrValue("K2") ELSE NumValue(1150)] }

\* _ensure_header: the header is written over row 1 unless it is there.
_ensure_header(ws) ==
    IF ws = <<>> THEN <<SHEET_HEADER>>
    ELSE IF ws[1][1] # SHEET_HEADER[1] THEN [ws EXCEPT ![1] = SHEET_HEADER]
    ELSE ws

\* row = [str(quote_data.get(col, "")) for col in COLUMNS], after
\* quote_data["timestamp"] = now.strftime(...)
QuoteRow(quote_data, now) ==
    [i \in 1..Len(COLUMNS) |->
        IF COLUMNS[i] = "timestamp" THEN Strftime(now)
        ELSE IF COLUMNS[i] \in DOMAIN quote_data THEN Str(quote_data[COLUMNS[i]])
        ELSE EmptyText]

save_quote_AtTop(ws, quote_data, now) ==
    <<_ensure_header(ws)[1], QuoteRow(quote_data, now)>>
        \o Tail(_ensure_header(ws))

save_quote(ws, quote_data, now) ==
    Append(_ensure_header(ws), QuoteRow(quote_data, now))

Expired_Never(ts, cutoff) == FALSE

\* ts < cutoff
Expired(ts, cutoff) == ts < cutoff

\* rows_to_delete: the row numbers from 2 whose timestamp parses and is
\* older than the cutoff.
RowsToDelete(all_values, now) ==
    IF Len(all_values) <= 1 THEN {}
    ELSE {i \in 2..Len(all_values) :
            /\ all_values[i] # <<>>
            /\ IsTimeText(all_values[i][1])
            /\ Expired(Strptime(all_values[i][1]), now - Retention)}

RECURSIVE Without(_, _, _)
Without(rows, deleted, i) ==
    IF i > Len(rows) THEN <<>>
    ELSE (IF i \in deleted THEN <<>> ELSE <<rows[i]>>)
         \o Without(rows, deleted, i + 1)

\* ws.delete_rows(row_idx): the rows below row_idx move up by one.
DeleteRow(ws, row_idx) ==
    IF row_idx \in 1..Len(ws)
    THEN SubSeq(ws, 1, row_idx - 1) \o SubSeq(ws, row_idx + 1, Len(ws))
    ELSE ws

RECURSIVE DeleteReversed_Ascending(_, _)
DeleteReversed_Ascending(ws, rows_to_delete) ==
    IF rows_to_delete = {} THEN ws
    ELSE LET row_idx == CHOOSE i \in rows_to_delete :
                            \A j \in rows_to_delete : i <= j
         IN DeleteReversed_Ascending(DeleteRow(ws, row_idx),
                                     rows_to_delete \ {row_idx})

\* for row_idx in reversed(rows_to_delete): ws.delete_rows(row_idx)
RECURSIVE DeleteReversed(_, _)
DeleteReversed(ws, rows_to_delete) ==
    IF rows_to_delete = {} THEN ws
    ELSE LET row_idx == CHOOSE i \in rows_to_delete :
                            \A j \in rows_to_delete : j <= i
         IN DeleteReversed(DeleteRow(ws, row_idx),
                           rows_to_delete \ {row_idx})

_cleanup_old_records_sheet(ws, now) ==
    DeleteReversed(ws, RowsToDelete(ws, now))

\* Worksheets as _cleanup_old_records_sheet can find them: the header, then
\* rows written by save_quote at some time, rows whose first cell is other
\* text or empty (edited by hand in the shared sheet), and rows without cells.
RowStartingWith(cell) ==
    [i \in 1..Len(COLUMNS) |-> IF i = 1 THEN cell ELSE EmptyText]
OtherText == [s |-> "n/a", digits |-> <<>>]
WorksheetRows ==
    {RowStartingWith(Strftime(t)) : t \in 0..MaxClock}
        \cup {RowStartingWith(OtherText), RowStartingWith(EmptyText), <<>>}
Worksheets ==
    {<<SHEET_HEADER>> \o rows : rows \in SeqsUpTo(WorksheetRows, MaxRows)}

\* ws.get_all_records() as rows of df[COLUMNS]: one record per row under
\* the header, keyed by column name.
Records(ws) ==
    [i \in 1..(Len(ws) - 1) |->
        [c \in {COLUMNS[j] : j \in 1..Len(COLUMNS)} |->
            ws[i + 1][CHOOSE j \in 1..Len(COLUMNS) : COLUMNS[j] = c]]]

\* load_history: the worksheet it leaves and the records it returns.
load_history(ws, now) ==
    LET headed == _ensure_header(ws)
        cleaned == _cleanup_old_records_sheet(headed, now)
    IN [ws |-> cleaned,
        deleted |-> Cardinality(RowsToDelete(headed, now)),
        records |-> Records(cleaned)]

NoOp == [op |-> "none", at |-> 0, quote_data |-> <<>>]

HistoryIdle ==
    /\ sheet = <<>>
    /\ hist_now = 0
    /\ hist_op = NoOp
    /\ history_result = NoCall

-----------------------------------------------------------------------------
(* services/product_data.py: the catalog loaders; app.py: loading the      *)
(* catalog at the start of a run.                                           *)

MaxSheetRows == 2

\* A cell of a products sheet row as row.get(column, 0) sees it: a number,
\* text that is no number, or the default 0 of a missing column.
NumberCell(n) == [kind |-> "number", n |-> n]
TextCell == [kind |-> "text", n |-> 0]
AbsentCell == [kind |-> "absent", n |-> 0]

SheetRow ==
    [model : {"", "K1"},
     sets_per_carton : {NumberCell(-1), NumberCell(0), NumberCell(2),
                        TextCell, AbsentCell},
     weight_kg : {NumberCell(0), NumberCell(8000), TextCell}]

\* ws.get_all_records() raised (no credentials, no network).
SheetsUnavailable == [raised |-> TRUE, records |-> <<>>]
SheetRecords(records) == [raised |-> FALSE, records |-> records]

ProductsSheets ==
    {SheetsUnavailable}
        \cup {SheetRecords(rs) : rs \in SeqsUpTo(SheetRow, MaxSheetRows)}

\* int(cell) / float(cell): the number, 0 for the default, or ValueError.
RaisesValueError(cell) == cell.kind = "text"
NumberOf(cell) == IF cell.kind = "number" THEN cell.n ELSE 0

\* The loop of _load_from_google_sheets over the records: rows without a
\* model or with a cell that is no number are skipped.
RECURSIVE LoadRows(_, _)
LoadRows(records, products) ==
    IF records = <<>> THEN products
    ELSE LET row == Head(records)
             option == [sets_per_carton |-> NumberOf(row.sets_per_carton),
                        weight_kg |-> NumberOf(row.weight_kg)]
         IN LoadRows(Tail(records),
               IF \/ row.model = ""
                  \/ RaisesValueError(row.sets_per_carton)
                  \/ RaisesValueError(row.weight_kg)
               THEN products
               ELSE IF row.model \in DOMAIN products
                    THEN [products EXCEPT ![row.model] = Append(@, option)]
                    ELSE [m \in DOMAIN products \cup {row.model} |->
                            IF m = row.model THEN <<option>> ELSE products[m]])

NoProducts == [m \in {} |-> <<>>]

_load_from_google_sheets(ws) == LoadRows(ws.records, NoProducts)

\* products.json: unreadable, or the dict json.load returns as it is.
JsonUnreadable == [raised |-> TRUE, products |-> NoProducts]
JsonFile(products) == [raised |-> FALSE, products |-> products]

ProductsJsons ==
    { JsonUnreadable,
      JsonFile(Catalog),
      JsonFile([m \in {"K9"} |-> << [sets_per_carton |-> 1, weight_kg |-> 3954] >>]) }

load_products_NoFallback(ws, json) ==
    IF ws.raised THEN [status |-> "raised", source |-> "none", products |-> NoProducts]
    ELSE [status |-> "ok", source |-> "sheets",
          products |-> _load_from_google_sheets(ws)]

\* load_products: the sheets catalog if it loads and is not empty, else
\* _load_from_json(), whose exception leaves the function.
load_products(ws, json) ==
    IF ~ws.raised /\ _load_from_google_sheets(ws) # NoProducts
    THEN [status |-> "ok", source |-> "sheets",
          products |-> _load_from_google_sheets(ws)]
    ELSE IF json.raised
         THEN [status |-> "raised", source |-> "none", products |-> NoProducts]
         ELSE [status |-> "ok", source |-> "json", products |-> json.products]

\* app.py after the sidebar: st.error and st.stop() when loading raised,
\* else the page is rendered.
PageAfterLoad(result) ==
    IF result.status = "raised" THEN "error, stopped" ELSE "rendered"

CatalogIdle ==
    /\ products_sheet = SheetsUnavailable
    /\ products_json = JsonUnreadable
    /\ load_result = NoCall
    /\ app_page = "none"

-----------------------------------------------------------------------------
(* services/product_data.py: calculate_shipment called repeatedly on one    *)
(* list object.                                                             *)

MaxCallerOptions == 2
MaxCalls == 3

CallQuantities == {1, 5}

OptionsAfterCall_SortedInPlace(options) == SortedDesc(options)

\* The caller's list after a call: sorted(options, ...) builds a new list,
\* and no statement assigns to options or to one of its dicts.
OptionsAfterCall(options) == options

CallsIdle ==
    /\ caller_options = <<>>
    /\ call_log = <<>>

-----------------------------------------------------------------------------
(* views/quote.py: _get_fixed_basic_cost and its use in the domestic flow   *)

MaxTotalSets == 30

\* config.DOMESTIC_FIXED_COSTS: (max_sets, cost)
DOMESTIC_FIXED_COSTS == << <<5, 5>>, <<10, 10>>, <<15, 15>>, <<20, 20>>, <<25, 25>> >>

\* Values of the manual fixed cost input (US$), 30 its default.
ManualFixedCosts == {0, 30, 45}

WithinTier_Strict(total_sets, max_sets) == total_sets < max_sets

\* total_sets <= max_sets
WithinTier(total_sets, max_sets) == total_sets <= max_sets

\* The loop over the tiers from index i: (cost, False) of the first tier
\* that holds total_sets, else (None, True).
RECURSIVE FixedCostFrom(_, _)
FixedCostFrom(total_sets, i) ==
    IF i > Len(DOMESTIC_FIXED_COSTS)
    THEN [fixed_cost |-> Missing, needs_manual_input |-> TRUE]
    ELSE IF WithinTier(total_sets, DOMESTIC_FIXED_COSTS[i][1])
         THEN [fixed_cost |-> Present(DOMESTIC_FIXED_COSTS[i][2]),
               needs_manual_input |-> FALSE]
         ELSE FixedCostFrom(total_sets, i + 1)

_get_fixed_basic_cost(total_sets) == FixedCostFrom(total_sets, 1)

\* Lines 652-669 of the domestic flow: the tier's cost, or the value of the
\* manual input shown with the warning.
FixedBasicCost(total_sets, manual_input) ==
    LET auto == _get_fixed_basic_cost(total_sets)
    IN [status |-> "ok",
        auto_fixed |-> auto.fixed_cost,
        needs_manual |-> auto.needs_manual_input,
        warning |-> auto.needs_manual_input,
        fixed_basic_cost |-> IF auto.needs_manual_input THEN manual_input
                             ELSE auto.fixed_cost[1]]

FixedIdle ==
    /\ fixed_args = [total_sets |-> 1, manual_input |-> 30]
    /\ fixed_result = NoCall

-----------------------------------------------------------------------------
(* views/quote.py: the domestic flow, with one product row and the ZIP     *)
(* Code input method.  Amounts of Shippo rates are in cents.                *)

\* Sender ZIP of the form: the ZIP of the chosen warehouse, or the text of
\* the custom ZIP input (empty until typed).
WarehouseZip == "49423"
FormSenderZips == {WarehouseZip, ""}

\* What get_domestic_rates and parse_shippo_rates did in a rerun: the
\* parsed rates (amounts > 0, ascending), or an exception.
DomNotCalled == [kind |-> "not called", rates |-> <<>>]
DomRaised == [kind |-> "raised", rates |-> <<>>]
DomRates(rates) == [kind |-> "rates", rates |-> rates]

ShippoRate ==
    { [provider |-> "USPS", service_token |-> "usps_priority",
       amount_usd |-> 1250],
      [provider |-> "UPS", service_token |-> "ups_ground",
       amount_usd |-> 1810] }

DomesticReplies ==
    {DomRaised} \cup
    {DomRates(rs) : rs \in {r \in SeqsUpTo(ShippoRate, 2) :
                        /\ Len(r) = 1 => r[1].provider = "USPS"
                        /\ \A i \in 1..(Len(r) - 1) :
                              r[i].amount_usd < r[i + 1].amount_usd}}

\* config.DOMESTIC_MARKUP = 1.25, in 1/100
DOMESTIC_MARKUP == 125

\* The results section of the domestic flow: one row per stored rate, with
\* quoted_usd = round(shippo_cost * DOMESTIC_MARKUP + effective_fixed, 2).
DomResultRows(sess, fixed_basic_cost) ==
    IF "dom_last_rates" \in DOMAIN sess /\ "dom_last_query" \in DOMAIN sess
    THEN LET rates == sess["dom_last_rates"]
         IN [i \in 1..Len(rates) |->
                [service_token |-> rates[i].service_token,
                 shippo_cost |-> rates[i].amount_usd,
                 quoted_usd |->
                    RoundCents(<<rates[i].amount_usd * DOMESTIC_MARKUP
                                    + fixed_basic_cost * 10000, 10000>>)]]
    ELSE <<>>

DomShown(sess, alert, results, reply, request) ==
    [session |-> sess, ui |-> [alert |-> alert, results |-> results],
     reply |-> reply, request |-> request]

NoRequest == [carrier |-> "none"]

\* The arguments of get_domestic_rates: the sender, the recipient ZIP and
\* the parcels of _build_shippo_parcels (their number; the weight they
\* share is the combined weight).
DomesticRequest(sender_zip, dest_zip, total_cartons, combined_weight) ==
    [carrier |-> "shippo", sender_zip |-> sender_zip,
     recipient_zip |-> dest_zip, num_parcels |-> total_cartons,
     total_weight_kg |-> combined_weight]

\* One run of _render_domestic_flow with the widgets' values `form`, the
\* query button pressed or not, and `reply` the outcome of the carrier
\* query should it be made.
RenderDomestic(sess0, form, pressed, reply) ==
    Bind(ProductSection(form), LAMBDA product :
       IF ~product.ok
       THEN DomShown(sess0, product.alert, <<>>, DomNotCalled, NoRequest)
       ELSE
       Bind(_clear_old_results_if_changed(sess0, product.product_entries,
                                          form.dest_zip, form.dest_state,
                                          "dom_last_query"),
            LAMBDA sess2 :
       LET combined_weight == product.total_weight_kg + form.extra_weight
           fixed_basic_cost ==
               FixedBasicCost(product.total_sets, 30).fixed_basic_cost
           query == [shipping_type |-> "domestic",
                     product_entries |-> product.product_entries,
                     products_key |-> ProductsKey(product.product_entries),
                     combined_shipment |->
                        [num_cartons |-> product.total_cartons,
                         total_weight_kg |-> combined_weight],
                     dest_state |-> form.dest_state,
                     dest_zip |-> form.dest_zip,
                     total_sets |-> product.total_sets,
                     fixed_basic_cost |-> fixed_basic_cost,
                     sender_zip |-> form.sender_zip]
           request == DomesticRequest(form.sender_zip, form.dest_zip,
                                      product.total_cartons, combined_weight)
       IN IF ~pressed
          THEN DomShown(sess2, "none", DomResultRows(sess2, fixed_basic_cost),
                        DomNotCalled, NoRequest)
          ELSE IF form.sender_zip = ""
               THEN DomShown(sess2, "error_no_sender", <<>>, DomNotCalled,
                             NoRequest)
          ELSE IF form.dest_zip = ""
               THEN DomShown(sess2, "error_no_destination", <<>>,
                             DomNotCalled, NoRequest)
          ELSE IF reply.kind = "raised"
               THEN DomShown(sess2, "error_query_failed", <<>>, reply, request)
          ELSE IF NoRates(reply.rates)
               THEN DomShown(sess2, "warning_no_rates", <<>>, reply, request)
          ELSE Bind(Put(Put(sess2, "dom_last_rates", reply.rates),
                        "dom_last_query", query),
                    LAMBDA sess3 :
                       DomShown(sess3, "none",
                                DomResultRows(sess3, fixed_basic_cost),
                                reply, request))))

\* The arguments of get_rate_quote in the international flow.
InternationalRequest(form) ==
    LET product == ProductSection(form)
    IN [carrier |-> "fedex", account_number |-> form.account,
        total_weight_kg |-> product.total_weight_kg + form.extra_weight,
        num_packages |-> product.total_cartons,
        postal_code |-> form.dest_zip, state_code |-> form.dest_state]

(* views/quote.py: the product rows of _render_product_section, for the     *)
(* flows "intl" and "dom", and the prefill from a record of the quote log.  *)
(* Texts are sequences of characters.                                       *)

MAX_PRODUCTS == 5

RowFlows == {"intl", "dom"}

\* No selection in a row's selectbox, and the catalogues whose model names
\* the selectbox offers: one name, without or with a semicolon in it.
NoRowModel == <<>>
RowModel == <<"K", "1">>
RowCatalogues == {<<RowModel>>, <<<<"K", ";", "2">>>>}

\* Rows are selected and saved while there are at most this many.
MaxSelectRows == 3

\* "; ".join(parts)
RECURSIVE JoinSemicolon(_)
JoinSemicolon(parts) ==
    IF parts = <<>> THEN <<>>
    ELSE IF Len(parts) = 1 THEN parts[1]
    ELSE parts[1] \o <<";", " ">> \o JoinSemicolon(Tail(parts))

\* text.split(";"): the pieces between semicolons, empty ones included.
RECURSIVE SplitSemicolon(_, _)
SplitSemicolon(text, piece) ==
    IF text = <<>> THEN <<piece>>
    ELSE IF Head(text) = ";"
         THEN <<piece>> \o SplitSemicolon(Tail(text), <<>>)
         ELSE SplitSemicolon(Tail(text), Append(piece, Head(text)))

\* piece.strip()
RECURSIVE Strip(_)
Strip(piece) ==
    IF piece = <<>> THEN <<>>
    ELSE IF Head(piece) = " " THEN Strip(Tail(piece))
    ELSE IF piece[Len(piece)] = " "
         THEN Strip(SubSeq(piece, 1, Len(piece) - 1))
    ELSE piece

RECURSIVE StrippedNonEmpty(_)
StrippedNonEmpty(pieces) ==
    IF pieces = <<>> THEN <<>>
    ELSE (IF Strip(Head(pieces)) = <<>> THEN <<>> ELSE <<Strip(Head(pieces))>>)
         \o StrippedNonEmpty(Tail(pieces))

\* int(float(q.strip())) of one decimal digit, 1 when it does not parse.
QuantityOf(piece) ==
    IF Strip(piece) \in {<<"1">>, <<"2">>}
    THEN (IF Strip(piece) = <<"1">> THEN 1 ELSE 2)
    ELSE 1

\* _parse_prefill_products: [(model, qty), ...]; zip stops at the shorter
\* list, and the quantities are padded with 1 to the number of models.
_parse_prefill_products(prefill) ==
    LET models == StrippedNonEmpty(SplitSemicolon(prefill.model, <<>>))
        quantities_raw == SplitSemicolon(prefill.quantity_sets, <<>>)
    IN [i \in 1..Len(models) |->
           <<models[i],
             IF i <= Len(quantities_raw) THEN QuantityOf(quantities_raw[i])
             ELSE 1>>]

NoPrefill == <<>>

\* rows_key after lines 151-157; 0 stands for "rows_key not in session".
NumRowsAtRender(stored_rows, prefill_products) ==
    IF prefill_products # <<>> THEN Len(prefill_products)
    ELSE IF stored_rows = 0 THEN 1
    ELSE stored_rows

\* The values of the rows' model widgets after the loop of lines 177-202
\* over num_rows rows: a prefilled row shows its prefilled model when the
\* catalogue has it, a row with a stored value keeps it, a new row has no
\* selection. Only the widgets a run renders keep their state.
WidgetsAtRender(widgets, num_rows, prefill_products, models) ==
    [i \in 1..num_rows |->
        IF i <= Len(prefill_products)
        THEN (IF \E m \in 1..Len(models) : models[m] = prefill_products[i][1]
              THEN prefill_products[i][1]
              ELSE NoRowModel)
        ELSE IF i <= Len(widgets) THEN widgets[i]
        ELSE NoRowModel]

\* if num_rows < MAX_PRODUCTS: the Add Product button
AddOffered(num_rows) == num_rows < MAX_PRODUCTS

\* if num_rows > 1: the Remove Last button
RemoveOffered(num_rows) == num_rows > 1

\* The record of the quote log _save_quote_common writes for the rows of a
\* flow whose products are all selected, as the Edit button of the history
\* page hands it back in st.session_state["prefill"].
SavedProducts(widgets, num_rows) ==
    [model |-> JoinSemicolon(SubSeq(widgets, 1, num_rows)),
     quantity_sets |-> JoinSemicolon([i \in 1..num_rows |-> <<"1">>])]

NoRowsOp == [op |-> "first run", flow |-> "", rows |-> 0]

\* The first run of the page with an empty quote log.
FirstRows ==
    /\ rows_num = [f \in RowFlows |-> NumRowsAtRender(0, NoPrefill)]
    /\ rows_widgets = [f \in RowFlows |->
                         WidgetsAtRender(<<>>, 1, NoPrefill, rows_models)]
    /\ quote_log = {}
    /\ rows_op = NoRowsOp

RowsIdle ==
    /\ rows_models = <<RowModel>>
    /\ FirstRows

\* The domestic form of the first run: no product selected, the first
\* warehouse chosen.
FirstDomForm ==
    [model |-> NoModel, quantity |-> 1, extra_weight |-> ExtraWeight,
     sender_zip |-> WarehouseZip, dest_zip |-> "", dest_state |-> ""]

NothingSent == [intl |-> NoRequest, dom |-> NoRequest]

ViewIdle ==
    /\ dom_form = FirstDomForm
    /\ dom_reply = DomNotCalled
    /\ dom_ui = [alert |-> "info_select_product", results |-> <<>>]
    /\ sent = NothingSent
    /\ cleared = [intl |-> "not run", dom |-> "not run"]
    /\ RowsIdle

LaterIdle ==
    /\ FedexIdle /\ HistoryIdle /\ CatalogIdle /\ CallsIdle /\ FixedIdle
    /\ ViewIdle

-----------------------------------------------------------------------------
(* Specification of the packing calculator: the arguments are any bounded   *)
(* options list and quantity, and the call computes the result from them.   *)

PackIdle ==
    /\ pack_options = <<>>
    /\ pack_quantity = 1
    /\ pack_result = NoCall

RatesIdle ==
    /\ response_json = NoOutput
    /\ parsed_rates = NoCall

PriceIdle ==
    /\ price_args = [cost_ntd |-> 0, exchange |-> 300, markup |-> 150, weight |-> 0]
    /\ price_row = NoCall

PackInit ==
    /\ pack_options \in OptionLists
    /\ pack_quantity \in Quantities
    /\ pack_result = NoCall
    /\ RatesIdle /\ PriceIdle /\ FlowIdle /\ LaterIdle

CallCalculateShipment ==
    /\ pack_result = NoCall
    /\ pack_result' = calculate_shipment(pack_options, pack_quantity)
    /\ UNCHANGED <<pack_options, pack_quantity>>
    /\ UNCHANGED <<rateVars, priceVars, flowVars, laterVars>>

PackNext == CallCalculateShipment

SpecPack == PackInit /\ [][PackNext]_vars

-----------------------------------------------------------------------------
(* Specification of the rate parser: the argument is any bounded carrier    *)
(* response, and the call computes the list of rates from it.               *)

RatesInit ==
    /\ response_json \in ResponsesUpTo(MaxDetails)
    /\ parsed_rates = NoCall
    /\ PackIdle /\ PriceIdle /\ FlowIdle /\ LaterIdle

CallParseRateResponse ==
    /\ parsed_rates = NoCall
    /\ parsed_rates' = Returned(parse_rate_response(response_json))
    /\ UNCHANGED response_json
    /\ UNCHANGED <<packVars, priceVars, flowVars, laterVars>>

RatesNext == CallParseRateResponse

SpecRates == RatesInit /\ [][RatesNext]_vars

-----------------------------------------------------------------------------
(* Specification of the pricing row: the inputs are any bounded charge,     *)
(* exchange rate, markup and weight, zero and negative values included.     *)

PriceCosts == {0, 90, 3000}
PriceExchanges == {-10, 0, 10, 300, 305}
PriceMarkups == {0, 150}
PriceWeights == {-50, 0, 50, 2350}

PriceInit ==
    /\ price_args \in [cost_ntd : PriceCosts, exchange : PriceExchanges,
                       markup : PriceMarkups, weight : PriceWeights]
    /\ price_row = NoCall
    /\ PackIdle /\ RatesIdle /\ FlowIdle /\ LaterIdle

ComputePricingRow ==
    /\ price_row = NoCall
    /\ price_row' = PricingRow(price_args.cost_ntd, price_args.exchange,
                               price_args.markup, price_args.weight)
    /\ UNCHANGED price_args
    /\ UNCHANGED <<packVars, rateVars, flowVars, laterVars>>

PriceNext == ComputePricingRow

SpecPricing == PriceInit /\ [][PriceNext]_vars

-----------------------------------------------------------------------------
(* Specification of the international flow: the session after the first     *)
(* run, then one rerun per interaction.                                     *)

FlowInit ==
    /\ \E account \in FormAccounts :
          /\ intl_form = FirstForm(account)
          /\ session_state = [k \in {"fedex_account"} |-> account]
    /\ carrier_reply = NotCalled
    /\ intl_ui = [alert |-> "info_select_product", results |-> <<>>]
    /\ saved_quote = NoSave
    /\ PackIdle /\ RatesIdle /\ PriceIdle /\ LaterIdle

Rerun(form, pressed, reply, save) ==
    \E shown \in {RenderInternational(session_state, form, pressed, reply)} :
       /\ intl_form' = form
       /\ session_state' = shown.session
       /\ intl_ui' = shown.ui
       /\ carrier_reply' = shown.reply
       /\ saved_quote' = IF save \in 1..Len(shown.ui.results)
                         THEN SaveButton(shown.session, form, save)
                         ELSE NoSave
       /\ UNCHANGED <<packVars, rateVars, priceVars, laterVars>>

ChangeAccount ==
    \E v \in FormAccounts \ {intl_form.account} :
        Rerun([intl_form EXCEPT !.account = v], FALSE, NotCalled, 0)

SelectModel ==
    \E v \in FormModels \ {NoModel, intl_form.model} :
        Rerun([intl_form EXCEPT !.model = v], FALSE, NotCalled, 0)

ChangeQuantity ==
    \E v \in FormQuantities \ {intl_form.quantity} :
        Rerun([intl_form EXCEPT !.quantity = v], FALSE, NotCalled, 0)

ChangeZip ==
    \E v \in FormZips \ {intl_form.dest_zip} :
        Rerun([intl_form EXCEPT !.dest_zip = v], FALSE, NotCalled, 0)

ChangeExchangeRate ==
    \E v \in FormExchangeRates \ {intl_form.exchange_rate} :
        Rerun([intl_form EXCEPT !.exchange_rate = v], FALSE, NotCalled, 0)

ChangeMarkup ==
    \E v \in FormMarkups \ {intl_form.markup_percent} :
        Rerun([intl_form EXCEPT !.markup_percent = v], FALSE, NotCalled, 0)

\* The query button is rendered only when the product section returned
\* its totals.
ClickQuery ==
    /\ ProductSection(intl_form).ok
    /\ \E reply \in CarrierReplies : Rerun(intl_form, TRUE, reply, 0)

\* A save button is rendered with each row of the results section.
ClickSave ==
    \E i \in 1..Len(intl_ui.results) : Rerun(intl_form, FALSE, NotCalled, i)

FlowNext ==
    \/ ChangeAccount
    \/ SelectModel
    \/ ChangeQuantity
    \/ ChangeZip
    \/ ChangeExchangeRate
    \/ ChangeMarkup
    \/ ClickQuery
    \/ ClickSave

SpecIntl == FlowInit /\ [][FlowNext]_vars

-----------------------------------------------------------------------------
(* Specification of get_rate_quote *)

FedexInit ==
    /\ FedexIdle /\ HistoryIdle /\ CatalogIdle /\ CallsIdle
    /\ PackIdle /\ RatesIdle /\ PriceIdle /\ FlowIdle /\ ViewIdle /\ FixedIdle

\* datetime.now() advances between calls.
Tick ==
    /\ fx_pc = "idle"
    /\ fx_now < MaxNow
    /\ fx_now' = fx_now + 1
    /\ UNCHANGED <<token_cache, fx_pc, fx_token, fx_sent, fx_refresh,
                   fx_result, fx_issued, fx_account, fx_tokens>>
    /\ UNCHANGED <<coreVars, viewVars, historyVars, catalogVars, callVars,
                   fixedVars>>

\* get_rate_quote is called: get_oauth_token(account_number) returns the
\* cached token, or posts a token request.
CallGetRateQuote ==
    /\ fx_pc = "idle"
    /\ fx_issued + 2 <= MaxTokens
    /\ \E account_number \in FedexAccounts : fx_account' = account_number
    /\ fx_sent' = <<>>
    /\ fx_refresh' = "none"
    /\ fx_result' = "none"
    /\ IF ReturnsCached(token_cache, fx_now, FALSE)
       THEN fx_token' = token_cache.token /\ fx_pc' = "post"
       ELSE fx_token' = NoToken /\ fx_pc' = "token"
    /\ UNCHANGED <<token_cache, fx_now, fx_issued, fx_tokens>>
    /\ UNCHANGED <<coreVars, viewVars, historyVars, catalogVars, callVars,
                   fixedVars>>

\* The token endpoint answers: a new token is cached and returned.
TokenIssued ==
    /\ fx_pc \in {"token", "refresh"}
    /\ \E life \in TokenLives :
          /\ token_cache' = [token |-> fx_issued + 1,
                             expires_at |-> fx_now + life]
          /\ fx_tokens' = Append(fx_tokens,
                                 TokenRequest(fx_account, fx_now, life))
    /\ fx_issued' = fx_issued + 1
    /\ fx_token' = fx_issued + 1
    /\ fx_refresh' = IF fx_pc = "refresh" THEN "done" ELSE fx_refresh
    /\ fx_pc' = IF fx_pc = "refresh" THEN "repost" ELSE "post"
    /\ UNCHANGED <<fx_now, fx_sent, fx_result, fx_account>>
    /\ UNCHANGED <<coreVars, viewVars, historyVars, catalogVars, callVars,
                   fixedVars>>

\* The token request fails (requests.post or raise_for_status raises): the
\* exception leaves get_rate_quote.
TokenFailed ==
    /\ fx_pc \in {"token", "refresh"}
    /\ fx_refresh' = IF fx_pc = "refresh" THEN "failed" ELSE fx_refresh
    /\ fx_result' = "raised"
    /\ fx_pc' = "idle"
    /\ UNCHANGED <<token_cache, fx_now, fx_token, fx_sent, fx_issued,
                   fx_account, fx_tokens>>
    /\ UNCHANGED <<coreVars, viewVars, historyVars, catalogVars, callVars,
                   fixedVars>>

\* The first post of the rate request and its response; after a 401,
\* get_oauth_token(account_number, force_refresh=True).
PostRateRequest ==
    /\ fx_pc = "post"
    /\ \E status \in RateStatuses :
          /\ fx_sent' = Append(fx_sent, [token |-> fx_token, payload |-> Payload,
                                         status |-> status])
          /\ IF NeedsRetry(status)
             THEN /\ fx_refresh' = "requested"
                  /\ fx_result' = fx_result
                  /\ IF ReturnsCached(token_cache, fx_now, TRUE)
                     THEN fx_token' = token_cache.token /\ fx_pc' = "repost"
                     ELSE fx_token' = fx_token /\ fx_pc' = "refresh"
             ELSE /\ fx_pc' = "idle" /\ fx_refresh' = fx_refresh
                  /\ fx_token' = fx_token
                  /\ fx_result' = IF RaisesForStatus(status) THEN "raised"
                                   ELSE "returned"
    /\ UNCHANGED <<token_cache, fx_now, fx_issued, fx_account, fx_tokens>>
    /\ UNCHANGED <<coreVars, viewVars, historyVars, catalogVars, callVars,
                   fixedVars>>

\* The post after the forced refresh, and raise_for_status on its response.
RepostRateRequest ==
    /\ fx_pc = "repost"
    /\ \E status \in RateStatuses :
          /\ fx_sent' = Append(fx_sent, [token |-> fx_token, payload |-> Payload,
                                         status |-> status])
          /\ fx_result' = IF RaisesForStatus(status) THEN "raised" ELSE "returned"
    /\ fx_pc' = "idle"
    /\ UNCHANGED <<token_cache, fx_now, fx_token, fx_refresh, fx_issued,
                   fx_account, fx_tokens>>
    /\ UNCHANGED <<coreVars, viewVars, historyVars, catalogVars, callVars,
                   fixedVars>>

FedexNext ==
    \/ Tick
    \/ CallGetRateQuote
    \/ TokenIssued
    \/ TokenFailed
    \/ PostRateRequest
    \/ RepostRateRequest

SpecFedex == FedexInit /\ [][FedexNext]_vars

-----------------------------------------------------------------------------
(* Specification of the quote log: save_quote and load_history calls, with  *)
(* time passing between them.                                               *)

HistoryInit ==
    /\ HistoryIdle /\ FedexIdle /\ CatalogIdle /\ CallsIdle
    /\ PackIdle /\ RatesIdle /\ PriceIdle /\ FlowIdle /\ ViewIdle /\ FixedIdle

HistoryTick ==
    /\ hist_now < MaxClock
    /\ hist_now' = hist_now + 1
    /\ hist_op' = [op |-> "tick", at |-> hist_now + 1, quote_data |-> <<>>]
    /\ UNCHANGED <<sheet, history_result>>
    /\ UNCHANGED <<coreVars, viewVars, fedexVars, catalogVars, callVars, fixedVars>>

SaveQuote ==
    /\ Len(sheet) <= MaxRows
    /\ \E quote_data \in QuoteRecords :
          /\ sheet' = save_quote(sheet, quote_data, hist_now)
          /\ hist_op' = [op |-> "save", at |-> hist_now,
                         quote_data |-> quote_data]
    /\ UNCHANGED <<hist_now, history_result>>
    /\ UNCHANGED <<coreVars, viewVars, fedexVars, catalogVars, callVars, fixedVars>>

LoadHistory ==
    /\ \E loaded \in {load_history(sheet, hist_now)} :
          /\ sheet' = loaded.ws
          /\ history_result' = [status |-> "ok", at |-> hist_now,
                                deleted |-> loaded.deleted,
                                records |-> loaded.records]
    /\ hist_op' = [op |-> "load", at |-> hist_now, quote_data |-> <<>>]
    /\ UNCHANGED hist_now
    /\ UNCHANGED <<coreVars, viewVars, fedexVars, catalogVars, callVars, fixedVars>>

HistoryNext ==
    \/ HistoryTick
    \/ SaveQuote
    \/ LoadHistory

SpecHistory == HistoryInit /\ [][HistoryNext]_vars

-----------------------------------------------------------------------------
(* Specification of the catalog load: a run of app.py with any bounded      *)
(* products sheet and products.json.                                        *)

CatalogInit ==
    /\ products_sheet \in ProductsSheets
    /\ products_json \in ProductsJsons
    /\ load_result = NoCall
    /\ app_page = "none"
    /\ FedexIdle /\ HistoryIdle /\ CallsIdle
    /\ PackIdle /\ RatesIdle /\ PriceIdle /\ FlowIdle /\ ViewIdle /\ FixedIdle

RunApp ==
    /\ load_result = NoCall
    /\ load_result' = load_products(products_sheet, products_json)
    /\ app_page' = PageAfterLoad(load_products(products_sheet, products_json))
    /\ UNCHANGED <<products_sheet, products_json>>
    /\ UNCHANGED <<coreVars, viewVars, fedexVars, historyVars, callVars, fixedVars>>

CatalogNext == RunApp

SpecCatalog == CatalogInit /\ [][CatalogNext]_vars

-----------------------------------------------------------------------------
(* Specification of repeated calls of calculate_shipment on the caller's    *)
(* list, with any quantities.                                               *)

CallsInit ==
    /\ caller_options \in SeqsUpTo(PackingOption, MaxCallerOptions)
    /\ call_log = <<>>
    /\ FedexIdle /\ HistoryIdle /\ CatalogIdle
    /\ PackIdle /\ RatesIdle /\ PriceIdle /\ FlowIdle /\ ViewIdle /\ FixedIdle

CallAgain ==
    /\ Len(call_log) < MaxCalls
    /\ \E quantity_sets \in CallQuantities :
          call_log' = Append(call_log,
                [options |-> caller_options,
                 quantity_sets |-> quantity_sets,
                 result |-> calculate_shipment(caller_options, quantity_sets)])
    /\ caller_options' = OptionsAfterCall(caller_options)
    /\ UNCHANGED <<coreVars, viewVars, fedexVars, historyVars, catalogVars, fixedVars>>

CallsNext == CallAgain

SpecCalls == CallsInit /\ [][CallsNext]_vars

-----------------------------------------------------------------------------
(* Specification of the domestic fixed basic cost: any bounded total of     *)
(* sets and any value of the manual input.                                  *)

FixedInit ==
    /\ fixed_args \in [total_sets : 1..MaxTotalSets,
                       manual_input : ManualFixedCosts]
    /\ fixed_result = NoCall
    /\ FedexIdle /\ HistoryIdle /\ CatalogIdle /\ CallsIdle
    /\ PackIdle /\ RatesIdle /\ PriceIdle /\ FlowIdle /\ ViewIdle

ComputeFixedBasicCost ==
    /\ fixed_result = NoCall
    /\ fixed_result' = FixedBasicCost(fixed_args.total_sets,
                                      fixed_args.manual_input)
    /\ UNCHANGED fixed_args
    /\ UNCHANGED <<coreVars, viewVars, fedexVars, historyVars, catalogVars, callVars>>

FixedNext == ComputeFixedBasicCost

SpecFixedCost == FixedInit /\ [][FixedNext]_vars

-----------------------------------------------------------------------------
(* Specification of the cleanup alone: _cleanup_old_records_sheet applied   *)
(* once to a worksheet with its header, at some time.                       *)

CleanupInit ==
    /\ sheet \in Worksheets
    /\ hist_now \in 0..MaxClock
    /\ hist_op = NoOp
    /\ history_result = NoCall
    /\ FedexIdle /\ CatalogIdle /\ CallsIdle
    /\ PackIdle /\ RatesIdle /\ PriceIdle /\ FlowIdle /\ ViewIdle /\ FixedIdle

CallCleanup ==
    /\ hist_op = NoOp
    /\ sheet' = _cleanup_old_records_sheet(sheet, hist_now)
    /\ hist_op' = [op |-> "cleanup", at |-> hist_now, quote_data |-> <<>>]
    /\ history_result' = [status |-> "cleaned", all_values |-> sheet]
    /\ UNCHANGED hist_now
    /\ UNCHANGED <<coreVars, viewVars, fedexVars, catalogVars, callVars, fixedVars>>

CleanupNext == CallCleanup

SpecCleanup == CleanupInit /\ [][CleanupNext]_vars

-----------------------------------------------------------------------------
(* Specification of the quote page: render_quote_page runs the             *)
(* international flow, then the domestic flow, in every rerun; one widget   *)
(* changes or one query button is pressed per rerun.  Exchange rate and     *)
(* markup stay at their defaults and the sidebar holds an account number    *)
(* (they are varied in SpecIntl); the extra weight is varied in the         *)
(* international flow, the sender in the domestic flow.                     *)

\* The FedEx responses of this specification: no output, no entries, and
\* entries of one service with one charge.
PageReplyDetail ==
    {d \in FlowReplyDetail :
        /\ d.serviceType = "A"
        /\ d.ratedShipmentDetails =
              << [rateType |-> "LIST", totalNetCharge |-> Present(100)] >>}

PageCarrierReplies ==
    {Raised, Response(NoOutput)} \cup
    {Response([rateReplyDetails |-> ds]) : ds \in SeqsUpTo(PageReplyDetail, 1)}

\* The models selected in this specification: one the catalog holds and the
\* quick model it does not hold.
PageModels == {"K0", "K1"}

PageInit ==
    /\ \E account \in FormAccounts \ {""} :
          /\ intl_form = FirstForm(account)
          /\ session_state = [k \in {"fedex_account"} |-> account]
    /\ carrier_reply = NotCalled
    /\ intl_ui = [alert |-> "info_select_product", results |-> <<>>]
    /\ saved_quote = NoSave
    /\ ViewIdle
    /\ PackIdle /\ RatesIdle /\ PriceIdle
    /\ FedexIdle /\ HistoryIdle /\ CatalogIdle /\ CallsIdle /\ FixedIdle

\* The request behind the rates a flow has stored: that of this rerun when
\* it stored rates, the one before when they were kept, none without them.
SentFor(sess, state_key, stored_now, request, before) ==
    IF state_key \notin DOMAIN sess THEN NoRequest
    ELSE IF stored_now THEN request
    ELSE before

\* What the call of _clear_old_results_if_changed in a flow's render did:
\* it is not reached when the product section returns None.
ClearOutcome(sess, form, state_key) ==
    LET product == ProductSection(form)
        after == _clear_old_results_if_changed(sess, product.product_entries,
                                               form.dest_zip, form.dest_state,
                                               state_key)
    IN IF ~product.ok THEN "not run"
       ELSE IF state_key \notin DOMAIN sess THEN "nothing stored"
       ELSE IF state_key \in DOMAIN after THEN "kept"
       ELSE "removed"

PageRerun(iform, ipressed, ireply, dform, dpressed, dreply) ==
    \E intl \in {RenderInternational(session_state, iform, ipressed, ireply)} :
    \E dom \in {RenderDomestic(intl.session, dform, dpressed, dreply)} :
       /\ intl_form' = iform
       /\ intl_ui' = intl.ui
       /\ carrier_reply' = intl.reply
       /\ saved_quote' = NoSave
       /\ dom_form' = dform
       /\ dom_ui' = dom.ui
       /\ dom_reply' = dom.reply
       /\ session_state' = dom.session
       /\ sent' =
            [intl |-> SentFor(dom.session, "intl_last_query",
                              intl.reply.kind = "response"
                                 /\ intl.ui.alert = "none",
                              InternationalRequest(iform), sent.intl),
             dom |-> SentFor(dom.session, "dom_last_query",
                             dom.reply.kind = "rates" /\ dom.ui.alert = "none",
                             dom.request, sent.dom)]
       /\ cleared' =
            [intl |-> ClearOutcome(session_state, iform, "intl_last_query"),
             dom |-> ClearOutcome(intl.session, dform, "dom_last_query")]
       /\ UNCHANGED <<packVars, rateVars, priceVars, fedexVars, historyVars,
                      catalogVars, callVars, fixedVars, rowsVars>>

IntlRerun(form, pressed, reply) ==
    PageRerun(form, pressed, reply, dom_form, FALSE, DomNotCalled)

DomRerun(form, pressed, reply) ==
    PageRerun(intl_form, FALSE, NotCalled, form, pressed, reply)

IntlSelectModel ==
    \E v \in PageModels \ {intl_form.model} :
        IntlRerun([intl_form EXCEPT !.model = v], FALSE, NotCalled)

IntlChangeQuantity ==
    \E v \in FormQuantities \ {intl_form.quantity} :
        IntlRerun([intl_form EXCEPT !.quantity = v], FALSE, NotCalled)

\* The extra weight widget is rendered below the product section's totals.
IntlChangeExtraWeight ==
    /\ ProductSection(intl_form).ok
    /\ \E v \in FormExtraWeights \ {intl_form.extra_weight} :
          IntlRerun([intl_form EXCEPT !.extra_weight = v], FALSE, NotCalled)

IntlChangeDestination ==
    /\ ProductSection(intl_form).ok
    /\ \E v \in FormDestinations \ {<<intl_form.dest_zip, intl_form.dest_state>>} :
          IntlRerun([intl_form EXCEPT !.dest_zip = v[1], !.dest_state = v[2]],
                    FALSE, NotCalled)

IntlClickQuery ==
    /\ ProductSection(intl_form).ok
    /\ \E reply \in PageCarrierReplies : IntlRerun(intl_form, TRUE, reply)

DomSelectModel ==
    \E v \in PageModels \ {dom_form.model} :
        DomRerun([dom_form EXCEPT !.model = v], FALSE, DomNotCalled)

DomChangeQuantity ==
    \E v \in FormQuantities \ {dom_form.quantity} :
        DomRerun([dom_form EXCEPT !.quantity = v], FALSE, DomNotCalled)

DomChangeSender ==
    /\ ProductSection(dom_form).ok
    /\ \E v \in FormSenderZips \ {dom_form.sender_zip} :
          DomRerun([dom_form EXCEPT !.sender_zip = v], FALSE, DomNotCalled)

DomChangeDestination ==
    /\ ProductSection(dom_form).ok
    /\ \E v \in FormDestinations \ {<<dom_form.dest_zip, dom_form.dest_state>>} :
          DomRerun([dom_form EXCEPT !.dest_zip = v[1], !.dest_state = v[2]],
                   FALSE, DomNotCalled)

DomClickQuery ==
    /\ ProductSection(dom_form).ok
    /\ \E reply \in DomesticReplies : DomRerun(dom_form, TRUE, reply)

PageNext ==
    \/ IntlSelectModel
    \/ IntlChangeQuantity
    \/ IntlChangeExtraWeight
    \/ IntlChangeDestination
    \/ IntlClickQuery
    \/ DomSelectModel
    \/ DomChangeQuantity
    \/ DomChangeSender
    \/ DomChangeDestination
    \/ DomClickQuery

SpecQuotePage == PageInit /\ [][PageNext]_vars

-----------------------------------------------------------------------------
(* SpecRows: the product rows of the quote page's flows under Add Product,  *)
(* Remove Last, the selection of a model, the saving of a quote, and the    *)
(* Edit button of the history page, each followed by its rerun.             *)

RowsInit ==
    /\ rows_models \in RowCatalogues
    /\ FirstRows
    /\ dom_form = FirstDomForm
    /\ dom_reply = DomNotCalled
    /\ dom_ui = [alert |-> "info_select_product", results |-> <<>>]
    /\ sent = NothingSent
    /\ cleared = [intl |-> "not run", dom |-> "not run"]
    /\ PackIdle /\ RatesIdle /\ PriceIdle /\ FlowIdle
    /\ FedexIdle /\ HistoryIdle /\ CatalogIdle /\ CallsIdle /\ FixedIdle

\* One rerun of _render_product_section for a flow: the row count the
\* session holds, the prefill popped for this run, and the widgets the run
\* renders, whose state is what Streamlit keeps.
RowsRerun(pfx, stored_rows, widgets, prefill, op) ==
    LET prefill_products == IF prefill = NoPrefill THEN <<>>
                            ELSE _parse_prefill_products(prefill)
        num_rows == NumRowsAtRender(stored_rows, prefill_products)
    IN /\ rows_num' = [rows_num EXCEPT ![pfx] = num_rows]
       /\ rows_widgets' = [rows_widgets EXCEPT
                             ![pfx] = WidgetsAtRender(widgets, num_rows,
                                                      prefill_products,
                                                      rows_models)]
       /\ rows_op' = [op |-> op, flow |-> pfx, rows |-> rows_num[pfx]]
       /\ UNCHANGED <<coreVars, domVars, fedexVars, historyVars, catalogVars,
                      callVars, fixedVars, rows_models>>

AddProduct ==
    \E pfx \in RowFlows :
       /\ AddOffered(rows_num[pfx])
       /\ RowsRerun(pfx, rows_num[pfx] + 1, rows_widgets[pfx], NoPrefill, "add")
       /\ UNCHANGED quote_log

RemoveLast ==
    \E pfx \in RowFlows :
       /\ RemoveOffered(rows_num[pfx])
       /\ RowsRerun(pfx, rows_num[pfx] - 1,
                    SubSeq(rows_widgets[pfx], 1, rows_num[pfx] - 1),
                    NoPrefill, "remove")
       /\ UNCHANGED quote_log

\* A model is selected or cleared in a row. Models are selected, and quotes
\* saved, in the international flow: a quote saved from the domestic flow
\* leaves the same record as one saved from as many international rows.
SelectRowModel ==
    \E i \in 1..rows_num["intl"] :
       \E model \in {NoRowModel, rows_models[1]} :
          /\ rows_num["intl"] <= MaxSelectRows
          /\ rows_widgets["intl"][i] # model
          /\ RowsRerun("intl", rows_num["intl"],
                       [rows_widgets["intl"] EXCEPT ![i] = model],
                       NoPrefill, "select")
          /\ UNCHANGED quote_log

\* The Save button of the results, which are shown for the products of the
\* rows when every row has its model.
SaveRowsQuote ==
    /\ rows_num["intl"] <= MaxSelectRows
    /\ \A i \in 1..rows_num["intl"] : rows_widgets["intl"][i] # NoRowModel
    /\ quote_log' = quote_log
                      \cup {SavedProducts(rows_widgets["intl"], rows_num["intl"])}
    /\ RowsRerun("intl", rows_num["intl"], rows_widgets["intl"], NoPrefill,
                 "save")

\* history_page.py: Edit on a record of the log stores it as "prefill" and
\* reruns; the international flow pops it.
EditFromHistory ==
    \E record \in quote_log :
       /\ RowsRerun("intl", rows_num["intl"], rows_widgets["intl"], record,
                    "prefill")
       /\ UNCHANGED quote_log

RowsNext ==
    \/ AddProduct
    \/ RemoveLast
    \/ SelectRowModel
    \/ SaveRowsQuote
    \/ EditFromHistory

SpecRows == RowsInit /\ [][RowsNext]_vars

-----------------------------------------------------------------------------
(* Properties of the packing calculator, checked under SpecPack *)

Called == pack_result # NoCall

SetsOf(options) == {options[i].sets_per_carton : i \in 1..Len(options)}

\* The preconditions of the packing contract.
ValidPackInput ==
    /\ pack_options # <<>>
    /\ \A s \in SetsOf(pack_options) : s > 0
    /\ pack_quantity >= 1

MaxOf(S) == CHOOSE m \in S : \A x \in S : x <= m
MinOf(S) == CHOOSE m \in S : \A x \in S : m <= x

\* Reference largest-first greedy over the distinct positive carton sizes:
\* the sequence of <<size, count>> pairs with count > 0.
RECURSIVE RefGreedy(_, _)
RefGreedy(sizes, remaining) ==
    IF sizes = {} \/ remaining <= 0 THEN <<>>
    ELSE LET m == MaxOf(sizes)
         IN (IF remaining >= m THEN <<(<<m, remaining \div m>>)>> ELSE <<>>)
            \o RefGreedy(sizes \ {m}, remaining % m)

RECURSIVE RefLeftover(_, _)
RefLeftover(sizes, remaining) ==
    IF sizes = {} \/ remaining <= 0 THEN remaining
    ELSE RefLeftover(sizes \ {MaxOf(sizes)}, remaining % MaxOf(sizes))

PositiveSizes == {s \in SetsOf(pack_options) : s > 0}
RefEntries == RefGreedy(PositiveSizes, pack_quantity)
RefRemaining == RefLeftover(PositiveSizes, pack_quantity)

SizeCount(breakdown) ==
    [i \in 1..Len(breakdown) |->
        <<breakdown[i].sets_per_carton, breakdown[i].count>>]

\* Index of the first / last option of a given size, in input order.
FirstIndexOf(options, s) ==
    MinOf({i \in 1..Len(options) : options[i].sets_per_carton = s})
LastIndexOf(options, s) ==
    MaxOf({i \in 1..Len(options) : options[i].sets_per_carton = s})

\* The counts of the first n entries of a breakdown, added up.
RECURSIVE CountUpTo(_, _)
CountUpTo(breakdown, n) ==
    IF n = 0 THEN 0 ELSE breakdown[n].count + CountUpTo(breakdown, n - 1)

\* C1: for non-empty options with positive sets_per_carton and quantity >= 1,
\* num_cartons is the sum of the breakdown's counts and no entry has count 0.
C1_CartonsAreSumOfCounts ==
    (Called /\ ValidPackInput) =>
        /\ pack_result.status = "ok"
        /\ pack_result.num_cartons =
              CountUpTo(pack_result.breakdown, Len(pack_result.breakdown))
        /\ \A i \in 1..Len(pack_result.breakdown) :
              pack_result.breakdown[i].count # 0

C1_Witness ==
    /\ Called /\ ValidPackInput
    /\ Len(pack_result.breakdown) = 3
    /\ pack_result.num_cartons = 3

\* C2 (as claimed): for every non-empty options list and quantity >= 1 the
\* call returns num_cartons >= 1 and total_weight_kg > 0.
C2_Claim ==
    (Called /\ pack_options # <<>> /\ pack_quantity >= 1) =>
        /\ pack_result.status = "ok"
        /\ pack_result.num_cartons >= 1
        /\ pack_result.total_weight_kg > 0

\* C3 (as claimed): the call fails with InvalidInput whenever options is
\* empty, quantity < 1, or some option has sets_per_carton <= 0.
C3_Claim ==
    (Called /\ ~ValidPackInput) => pack_result.status = "InvalidInput"

\* C4: for valid inputs the greedy part of the breakdown is exactly the
\* reference largest-first greedy (size and count of every entry, in
\* descending size order), and the leftover it hands to the round-up step
\* is the reference leftover.
C4_GreedyMatchesReference ==
    (Called /\ ValidPackInput) =>
        LET b == SizeCount(pack_result.breakdown)
            n == Len(RefEntries)
        IN /\ pack_result.status = "ok"
           /\ Len(b) = n + (IF RefRemaining > 0 THEN 1 ELSE 0)
           /\ SubSeq(b, 1, n) = RefEntries

C4_Witness ==
    /\ Called /\ ValidPackInput
    /\ Len(pack_options) >= 2
    /\ pack_options[1].sets_per_carton < pack_options[2].sets_per_carton
    /\ Len(RefEntries) >= 2

\* C5: for valid inputs, a leftover after the greedy pass is packed in one
\* more entry, of the option with the minimum sets_per_carton and with
\* count = ceil(leftover / that size); with no leftover no entry is added.
\* Options {4, 15.0}, {2, 8.0} with quantity 5 give one 4-pack and one
\* 2-pack, 2 cartons, 23.0 kg.
C5_RoundUpWithSmallest ==
    (Called /\ ValidPackInput) =>
        LET b == pack_result.breakdown
            n == Len(RefEntries)
            smallest == MinOf(SetsOf(pack_options))
        IN /\ pack_result.status = "ok"
           /\ RefRemaining > 0 =>
                 /\ Len(b) = n + 1
                 /\ b[n + 1].sets_per_carton = smallest
                 /\ (b[n + 1].count - 1) * smallest < RefRemaining
                 /\ RefRemaining <= b[n + 1].count * smallest
                 /\ \E i \in 1..Len(pack_options) :
                       /\ pack_options[i].sets_per_carton = smallest
                       /\ pack_options[i].weight_kg = b[n + 1].weight_kg
           /\ RefRemaining = 0 => Len(b) = n
           /\ (/\ pack_options = << [sets_per_carton |-> 4, weight_kg |-> 15000],
                                    [sets_per_carton |-> 2, weight_kg |-> 8000] >>
               /\ pack_quantity = 5) =>
                 pack_result =
                    [status |-> "ok", num_cartons |-> 2, total_weight_kg |-> 2300,
                     breakdown |->
                        << [sets_per_carton |-> 4, weight_kg |-> 15000, count |-> 1],
                           [sets_per_carton |-> 2, weight_kg |-> 8000, count |-> 1] >>]

C5_Witness ==
    /\ Called
    /\ pack_options = << [sets_per_carton |-> 4, weight_kg |-> 15000],
                         [sets_per_carton |-> 2, weight_kg |-> 8000] >>
    /\ pack_quantity = 5
    /\ RefRemaining = 1
    /\ Len(pack_result.breakdown) = 2

\* Two options of one size with different weights.
HasDuplicateSize ==
    \E i, j \in 1..Len(pack_options) :
        /\ i < j
        /\ pack_options[i].sets_per_carton = pack_options[j].sets_per_carton
        /\ pack_options[i].weight_kg # pack_options[j].weight_kg

\* C6 (as claimed): with two options of one size, every breakdown entry of
\* a size carries the weight_kg of the first option of that size in input
\* order.
C6_Claim ==
    (Called /\ ValidPackInput /\ HasDuplicateSize) =>
        \A k \in 1..Len(pack_result.breakdown) :
            LET e == pack_result.breakdown[k]
            IN e.weight_kg =
                 pack_options[FirstIndexOf(pack_options, e.sets_per_carton)].weight_kg

\* C6 (amended): every entry of the greedy pass carries the weight_kg of the
\* first option of its size in input order; the round-up entry carries the
\* weight_kg of the last option of the smallest size in input order.
C6_FirstForGreedyLastForRoundUp ==
    (Called /\ ValidPackInput) =>
        LET b == pack_result.breakdown
            n == Len(RefEntries)
        IN /\ \A k \in 1..Len(b) :
                 k <= n =>
                    b[k].weight_kg =
                       pack_options[FirstIndexOf(pack_options,
                                                 b[k].sets_per_carton)].weight_kg
           /\ \A k \in 1..Len(b) :
                 k > n =>
                    b[k].weight_kg =
                       pack_options[LastIndexOf(pack_options,
                                                b[k].sets_per_carton)].weight_kg

C6_Witness ==
    /\ Called /\ ValidPackInput /\ HasDuplicateSize
    /\ Len(pack_result.breakdown) = 2
    /\ pack_result.breakdown[1].sets_per_carton
          = pack_result.breakdown[2].sets_per_carton
    /\ pack_result.breakdown[1].weight_kg # pack_result.breakdown[2].weight_kg

-----------------------------------------------------------------------------
(* Properties of the rate parser, checked under SpecRates *)

Parsed == parsed_rates # NoCall

\* raw_results of the response at hand.
RawOfResponse == RawResults(RateReplyDetails(response_json))

TypeCharge(rates) ==
    [i \in 1..Len(rates) |-> <<rates[i].service_type, rates[i].total_charge>>]

\* The first index, in input order, among the entries of service type t
\* that have the minimum total_charge of that type.
FirstCheapestIndex(raw, t) ==
    MinOf({i \in 1..Len(raw) :
             /\ raw[i].service_type = t
             /\ \A k \in 1..Len(raw) :
                   raw[k].service_type = t =>
                      raw[i].total_charge <= raw[k].total_charge})

\* C7: the output holds exactly one entry per service type of the raw list
\* and no other entry, and that entry is the first raw entry, in input
\* order, among those of its type with the minimum total_charge;
\* [{A,100},{A,90},{B,200}] gives [{A,90},{B,200}].
C7_CheapestPerServiceType ==
    Parsed =>
        LET raw == RawOfResponse
            out == parsed_rates.rates
            types == {raw[i].service_type : i \in 1..Len(raw)}
        IN /\ parsed_rates.status = "ok"
           /\ \A t \in types :
                 Cardinality({j \in 1..Len(out) : out[j].service_type = t}) = 1
           /\ \A j \in 1..Len(out) :
                 /\ out[j].service_type \in types
                 /\ out[j] = raw[FirstCheapestIndex(raw, out[j].service_type)]
           /\ TypeCharge(raw) = << <<"A", 100>>, <<"A", 90>>, <<"B", 200>> >>
                 => TypeCharge(out) = << <<"A", 90>>, <<"B", 200>> >>

\* Two raw entries of one type tie at the minimum charge and differ.
C7_Witness ==
    /\ Parsed
    /\ TypeCharge(RawOfResponse) = << <<"A", 100>>, <<"A", 90>>, <<"A", 90>> >>
    /\ RawOfResponse[2] # RawOfResponse[3]
    /\ parsed_rates.rates = <<RawOfResponse[2]>>

\* C8: the output is sorted by ascending total_charge.
C8_SortedByCharge ==
    Parsed =>
        \A j \in 1..(Len(parsed_rates.rates) - 1) :
            parsed_rates.rates[j].total_charge
               <= parsed_rates.rates[j + 1].total_charge

\* The dearer service comes first in the response and last in the output.
C8_Witness ==
    /\ Parsed
    /\ TypeCharge(RawOfResponse) = << <<"B", 200>>, <<"A", 90>> >>
    /\ TypeCharge(parsed_rates.rates) = << <<"A", 90>>, <<"B", 200>> >>

-----------------------------------------------------------------------------
(* Property of the international flow, checked under SpecIntl *)

NothingStored ==
    /\ intl_ui'.alert = "warning_no_rates"
    /\ intl_ui'.results = <<>>
    /\ session_state' = session_state

\* C9: a rerun whose carrier response has no rate details, or whose parsed
\* rate list is empty for any other reason, raises nothing: the parser
\* returns the empty list, the flow shows the "no rates" warning, and the
\* session (last_rates and last_query included) is left as it was.
C9_NoRatesIsAWarning ==
    [][ /\ (/\ carrier_reply'.kind = "response"
            /\ RateReplyDetails(carrier_reply'.json) = <<>>)
           => (/\ parse_rate_response(carrier_reply'.json) = <<>>
               /\ NothingStored)
        /\ (/\ carrier_reply'.kind = "response"
            /\ parse_rate_response(carrier_reply'.json) = <<>>)
           => NothingStored ]_vars

\* A query answered without rate details, while the rates of an earlier
\* query are still stored.
C9_Witness ==
    /\ carrier_reply.kind = "response"
    /\ RateReplyDetails(carrier_reply.json) = <<>>
    /\ intl_ui.alert = "warning_no_rates"
    /\ "intl_last_rates" \in DOMAIN session_state
    /\ session_state["intl_last_rates"] # <<>>

-----------------------------------------------------------------------------
(* Property of the pricing row, checked under SpecPricing *)

Priced == price_row # NoCall

IsZero(x) == x[1] = 0 /\ x[2] # 0

\* x = a / b for integers a and b # 0
IsQuotient(x, a, b) == x[2] # 0 /\ x[1] * b = a * x[2]

\* C10: pricing a rate never divides by zero; usd_cost is 0 when the
\* exchange rate is <= 0 and cost / exchange rate otherwise, cost_per_kg is
\* 0 when the weight is <= 0 and cost / weight otherwise.
C10_NoDivisionByZero ==
    Priced =>
        /\ price_row.status = "ok"
        /\ price_args.exchange <= 0 => IsZero(price_row.usd_cost)
        /\ price_args.exchange > 0 =>
              IsQuotient(price_row.usd_cost,
                         price_args.cost_ntd * 10, price_args.exchange)
        /\ price_args.weight <= 0 => IsZero(price_row.cost_per_kg)
        /\ price_args.weight > 0 =>
              IsQuotient(price_row.cost_per_kg,
                         price_args.cost_ntd * 100, price_args.weight)

C10_Witness ==
    /\ Priced
    /\ price_args.cost_ntd = 3000
    /\ price_args.exchange = 0
    /\ price_args.weight = 0
    /\ price_row.status = "ok"
    /\ IsZero(price_row.usd_cost)

\* x = n for an integer n
IsInteger(x, n) == x[2] # 0 /\ x[1] = n * x[2]

\* x = a / b, compared in lowest terms
IsFraction(x, a, b) == x[2] > 0 /\ x[1] >= 0 /\ Lowest(x[1], x[2]) = Lowest(a, b)

\* C11: for a positive exchange rate and a markup >= 0 the quoted price is
\* cost / exchange_rate * (1 + markup_percent / 100); cost 3000 at exchange
\* rate 30.0 with markup 15.0 % gives usd_cost 100 and a quoted price of 115.
C11_QuotedIsUsdCostTimesMarkup ==
    (Priced /\ price_args.exchange > 0 /\ price_args.markup >= 0) =>
        /\ price_row.status = "ok"
        /\ IsFraction(price_row.quoted_usd,
                      price_args.cost_ntd * 10 * (1000 + price_args.markup),
                      price_args.exchange * 1000)
        /\ (/\ price_args.cost_ntd = 3000
            /\ price_args.exchange = 300
            /\ price_args.markup = 150)
           => /\ IsInteger(price_row.usd_cost, 100)
              /\ IsInteger(price_row.quoted_usd, 115)

C11_Witness ==
    /\ Priced
    /\ price_args.cost_ntd = 3000
    /\ price_args.exchange = 300
    /\ price_args.markup = 150
    /\ IsInteger(price_row.quoted_usd, 115)

-----------------------------------------------------------------------------
(* Properties of the saved quote, checked under SpecIntl *)

Saved == saved_quote # NoSave

\* The stored rates of the service type of the saved record.
StoredRatesOfSaved ==
    LET rates == session_state["intl_last_rates"]
    IN {rates[i] : i \in {j \in 1..Len(rates) :
            rates[j].service_type = saved_quote.rate_data.service_type}}

\* c hundredths is a / b rounded to 2 decimals (b > 0)
IsNearestCent(c, a, b) ==
    LET diff == 100 * a - c * b
    IN 2 * (IF diff < 0 THEN -diff ELSE diff) <= b

\* C12: a saved record holds the carrier charge as stored, and its usd_cost
\* and quoted_price_usd are the 2-decimal roundings of the unrounded
\* charge / exchange and charge / exchange * (1 + markup / 100) at the
\* current exchange rate and markup: the quoted price is not computed from
\* the rounded usd_cost, nor from the values of the query's time.
C12_RoundedOnlyWhenSaved ==
    Saved =>
        \E r \in StoredRatesOfSaved :
            LET d == saved_quote.rate_data
            IN /\ d.shipping_cost_ntd = r.total_charge
               /\ d.exchange_rate = intl_form.exchange_rate
               /\ d.markup_percent = intl_form.markup_percent
               /\ IsNearestCent(d.usd_cost, r.total_charge * 10, d.exchange_rate)
               /\ IsNearestCent(d.quoted_price_usd,
                                r.total_charge * 10 * (1000 + d.markup_percent),
                                d.exchange_rate * 1000)

\* A charge of NT$ 100 queried at 30.0 and 15 %, saved at 31.5 and 20 %:
\* 3.17 and 3.81, where 3.17 * 1.2 would round to 3.80.
C12_Witness ==
    /\ Saved
    /\ saved_quote.rate_data.shipping_cost_ntd = 100
    /\ saved_quote.rate_data.exchange_rate = 315
    /\ saved_quote.rate_data.markup_percent = 200
    /\ saved_quote.rate_data.usd_cost = 317
    /\ saved_quote.rate_data.quoted_price_usd = 381
    /\ session_state["intl_last_query"].exchange_rate = 300
    /\ session_state["intl_last_query"].markup_percent = 150

-----------------------------------------------------------------------------
(* Property of a rerun after an exchange rate or markup change, checked     *)
(* under SpecIntl                                                           *)

\* The step is a rerun in which only the exchange rate or the markup differs.
OnlyPricingChanged ==
    /\ intl_form' # intl_form
    /\ intl_form'.model = intl_form.model
    /\ intl_form'.quantity = intl_form.quantity
    /\ intl_form'.extra_weight = intl_form.extra_weight
    /\ intl_form'.dest_zip = intl_form.dest_zip
    /\ intl_form'.dest_state = intl_form.dest_state
    /\ intl_form'.account = intl_form.account

HasStoredRates(sess) ==
    "intl_last_rates" \in DOMAIN sess /\ "intl_last_query" \in DOMAIN sess

\* row is the rate r priced at the given exchange rate (> 0) and markup
RowOfRate(row, r, exchange, markup) ==
    /\ row.service_type = r.service_type
    /\ row.cost_ntd = r.total_charge
    /\ IsFraction(row.pricing.usd_cost, r.total_charge * 10, exchange)
    /\ IsFraction(row.pricing.quoted_usd,
                  r.total_charge * 10 * (1000 + markup), exchange * 1000)

\* C13: a rerun in which only the exchange rate or the markup changed calls
\* no carrier and leaves the session (last_rates and last_query) as it was;
\* every row it displays is a stored rate priced with the new exchange rate
\* and markup, all stored rates are displayed when the product section is
\* complete, and a record saved afterwards carries the current values.
C13_PricingChangeKeepsRates ==
    [][ /\ OnlyPricingChanged =>
            /\ carrier_reply' = NotCalled
            /\ session_state' = session_state
            /\ \A i \in 1..Len(intl_ui'.results) :
                  \E j \in 1..Len(session_state["intl_last_rates"]) :
                      RowOfRate(intl_ui'.results[i],
                                session_state["intl_last_rates"][j],
                                intl_form'.exchange_rate,
                                intl_form'.markup_percent)
            /\ (HasStoredRates(session_state) /\ ProductSection(intl_form').ok)
                  => Len(intl_ui'.results) =
                        Len(session_state["intl_last_rates"])
        /\ saved_quote' # NoSave =>
            /\ carrier_reply' = NotCalled
            /\ session_state' = session_state
            /\ saved_quote'.rate_data.exchange_rate = intl_form'.exchange_rate
            /\ saved_quote'.rate_data.markup_percent = intl_form'.markup_percent
      ]_vars

\* Rates queried at one markup are displayed at another, with no carrier
\* call in the rerun.
C13_Witness ==
    /\ HasStoredRates(session_state)
    /\ Len(intl_ui.results) = Len(session_state["intl_last_rates"])
    /\ session_state["intl_last_query"].markup_percent = 150
    /\ session_state["intl_last_query"].exchange_rate = 300
    /\ intl_form.markup_percent = 200
    /\ intl_form.exchange_rate = 300
    /\ carrier_reply = NotCalled
    /\ saved_quote = NoSave
    /\ \E i \in 1..Len(intl_ui.results) :
          /\ intl_ui.results[i].cost_ntd = 100
          /\ IsInteger(intl_ui.results[i].pricing.quoted_usd, 4)

-----------------------------------------------------------------------------
(* Properties of get_rate_quote, checked under SpecFedex *)

CallEnded == fx_pc = "idle" /\ fx_result # "none"

FirstWas401 == fx_sent # <<>> /\ fx_sent[1].status = 401

\* The second post repeats the payload with the token of the forced
\* refresh, which is the cached token from then on.
RetriedWithNewToken ==
    /\ Len(fx_sent) = 2
    /\ fx_sent[2].payload = fx_sent[1].payload
    /\ fx_sent[2].token # fx_sent[1].token
    /\ fx_sent[2].token = token_cache.token

\* The response raise_for_status looks at decides how the call ends.
FinalStatusDecides ==
    (CallEnded /\ fx_sent # <<>> /\ fx_refresh # "failed") =>
        (fx_result = "raised") = (fx_sent[Len(fx_sent)].status >= 400)

\* C14 as stated: at most two posts per call; a call's first response is
\* 401 if and only if the token is force-refreshed, replaced in the cache
\* and the payload posted once more with it; an error status of the final
\* response is raised.
C14_Claim ==
    /\ Len(fx_sent) <= 2
    /\ CallEnded => (FirstWas401 <=> RetriedWithNewToken)
    /\ FinalStatusDecides

\* C14: at most two posts per call; the forced token request is made if and
\* only if the first response is 401; when it succeeds the cached token is
\* replaced and the same payload posted exactly once more with the new
\* token, when it fails the call raises without a second post and with the
\* cache as it was; an error status of the final response is raised.
C14_RetryOnceAfter401 ==
    /\ Len(fx_sent) <= 2
    /\ (fx_refresh # "none") <=> FirstWas401
    /\ CallEnded =>
          /\ (fx_refresh = "done") <=> RetriedWithNewToken
          /\ fx_refresh = "failed" =>
                /\ Len(fx_sent) = 1
                /\ fx_result = "raised"
                /\ token_cache.token = fx_sent[1].token
          /\ fx_refresh = "none" => Len(fx_sent) <= 1
    /\ FinalStatusDecides

\* A call that posted twice and ended with the second 401.
C14_Witness ==
    /\ CallEnded
    /\ RetriedWithNewToken
    /\ fx_sent[1].status = 401
    /\ fx_sent[2].status = 401
    /\ fx_result = "raised"

-----------------------------------------------------------------------------
(* Properties of the quote log, checked under SpecHistory *)

Loaded == history_result # NoCall

\* C15: whatever was saved and loaded before, no record returned by
\* load_history has a timestamp older than 90 days before the load.
C15_ListedWithinRetention ==
    Loaded =>
        \A i \in 1..Len(history_result.records) :
            /\ IsTimeText(history_result.records[i]["timestamp"])
            /\ Strptime(history_result.records[i]["timestamp"])
                  >= history_result.at - Retention

\* A load that deleted an expired record and returned one saved exactly 90
\* days before.
C15_Witness ==
    /\ Loaded
    /\ hist_op.op = "load"
    /\ history_result.deleted >= 1
    /\ history_result.records # <<>>
    /\ Strptime(history_result.records[1]["timestamp"])
          = history_result.at - Retention

\* The rows under the header.
RecordRows(ws) == IF ws = <<>> THEN <<>> ELSE Tail(ws)

\* C16: a save_quote call adds exactly one row at the end of the log: the
\* record's values in COLUMNS order, "" for a missing key, the time of the
\* call as timestamp; the record rows stored before are unchanged.
C16_SaveAppendsOneRow ==
    [][ hist_op'.op = "save" =>
          LET old == RecordRows(sheet)
              new == RecordRows(sheet')
              row == new[Len(new)]
              quote_data == hist_op'.quote_data
          IN /\ sheet'[1] = SHEET_HEADER
             /\ Len(new) = Len(old) + 1
             /\ \A i \in 1..Len(old) : new[i] = old[i]
             /\ Len(row) = Len(COLUMNS)
             /\ IsTimeText(row[1]) /\ Strptime(row[1]) = hist_now
             /\ \A j \in 2..Len(COLUMNS) :
                   IF COLUMNS[j] \in DOMAIN quote_data
                   THEN row[j] = Str(quote_data[COLUMNS[j]])
                   ELSE row[j] = EmptyText
             /\ "quoted_price_usd" \in DOMAIN quote_data =>
                   Number(row[15].digits) = quote_data["quoted_price_usd"].n
      ]_vars

\* A save onto a log that already holds an older record.
C16_Witness ==
    /\ hist_op.op = "save"
    /\ Len(sheet) >= 3
    /\ Strptime(sheet[Len(sheet)][1]) = hist_now
    /\ Strptime(sheet[2][1]) < hist_now
    /\ sheet[Len(sheet)][2] = Str(StrValue("K2"))
    /\ sheet[Len(sheet)][3] = EmptyText

-----------------------------------------------------------------------------
(* Properties of the catalog load, checked under SpecCatalog *)

AppRan == load_result # NoCall

\* A record the sheets loader keeps: a model, and cells that are numbers
\* or missing.
KeptRow(row) ==
    /\ row.model # ""
    /\ row.sets_per_carton.kind # "text"
    /\ row.weight_kg.kind # "text"

SheetsHasProducts ==
    /\ ~products_sheet.raised
    /\ \E i \in 1..Len(products_sheet.records) : KeptRow(products_sheet.records[i])

\* C17: the sheets catalog is returned when it loads with a product; the
\* JSON catalog when the sheets load raises or is empty; the load raises
\* only when the JSON load fails too, and then the run reports the error
\* and stops without a page.
C17_SheetsThenJsonThenStop ==
    AppRan =>
        /\ SheetsHasProducts =>
              /\ load_result.status = "ok"
              /\ load_result.source = "sheets"
              /\ load_result.products # NoProducts
              /\ \A i \in 1..Len(products_sheet.records) :
                    KeptRow(products_sheet.records[i]) =>
                        products_sheet.records[i].model
                            \in DOMAIN load_result.products
        /\ (~SheetsHasProducts /\ ~products_json.raised) =>
              /\ load_result.status = "ok"
              /\ load_result.source = "json"
              /\ load_result.products = products_json.products
        /\ (load_result.status = "raised")
              <=> (~SheetsHasProducts /\ products_json.raised)
        /\ (app_page = "error, stopped") <=> (load_result.status = "raised")
        /\ (app_page = "rendered") <=> (load_result.status = "ok")

\* A sheet that is read but whose only row is skipped: the JSON catalog is
\* returned and the page rendered.
C17_Witness ==
    /\ AppRan
    /\ ~products_sheet.raised
    /\ Len(products_sheet.records) = 1
    /\ load_result.source = "json"
    /\ load_result.products = Catalog
    /\ app_page = "rendered"

\* C18 as stated: every option of the loaded catalog has a positive
\* sets_per_carton and a positive weight_kg.
C18_Claim ==
    (AppRan /\ load_result.status = "ok") =>
        \A m \in DOMAIN load_result.products :
            \A i \in 1..Len(load_result.products[m]) :
                /\ load_result.products[m][i].sets_per_carton > 0
                /\ load_result.products[m][i].weight_kg > 0

-----------------------------------------------------------------------------
(* Property of repeated calls, checked under SpecCalls *)

-----------------------------------------------------------------------------
(* Property of the domestic fixed basic cost, checked under SpecFixedCost *)

FixedComputed == fixed_result # NoCall

\* C20: 1-5 sets give 5, 6-10 give 10, 11-15 give 15, 16-20 give 20 and
\* 21-25 give 25, without manual input; above 25 sets the function returns
\* (None, True) and the flow takes the manually entered fixed cost.
C20_FixedCostByTier ==
    FixedComputed =>
        LET n == fixed_args.total_sets
        IN /\ n \in 1..25 =>
                 /\ fixed_result.auto_fixed = <<5 * ((n + 4) \div 5)>>
                 /\ fixed_result.needs_manual = FALSE
                 /\ fixed_result.fixed_basic_cost = 5 * ((n + 4) \div 5)
           /\ n \in 1..5 => fixed_result.fixed_basic_cost = 5
           /\ n \in 6..10 => fixed_result.fixed_basic_cost = 10
           /\ n \in 11..15 => fixed_result.fixed_basic_cost = 15
           /\ n \in 16..20 => fixed_result.fixed_basic_cost = 20
           /\ n \in 21..25 => fixed_result.fixed_basic_cost = 25
           /\ n > 25 =>
                 /\ fixed_result.auto_fixed = <<>>
                 /\ fixed_result.needs_manual = TRUE
                 /\ fixed_result.fixed_basic_cost = fixed_args.manual_input

\* 26 sets with 45 entered by hand.
C20_Witness ==
    /\ FixedComputed
    /\ fixed_args.total_sets = 26
    /\ fixed_args.manual_input = 45
    /\ fixed_result.needs_manual = TRUE
    /\ fixed_result.fixed_basic_cost = 45

(***************************************************************************)
(* C21: one breakdown entry per carton configuration                       *)
(***************************************************************************)

DistinctSizes ==
    \A i, j \in 1..Len(pack_options) :
        i # j => pack_options[i].sets_per_carton # pack_options[j].sets_per_carton

\* C21 (as claimed): for options with pairwise distinct sets_per_carton the
\* breakdown holds at most one entry per carton configuration, so an entry's
\* count is the total number of cartons of that configuration.
C21_Claim ==
    (Called /\ ValidPackInput /\ DistinctSizes /\ pack_result.status = "ok") =>
        \A i, j \in 1..Len(pack_result.breakdown) :
            i # j => pack_result.breakdown[i].sets_per_carton
                        # pack_result.breakdown[j].sets_per_carton

(***************************************************************************)
(* C22: the cartons hold all requested sets, with bounded overshoot        *)
(***************************************************************************)

\* sum(count * sets_per_carton) over a breakdown.
RECURSIVE SetsHeld(_)
SetsHeld(breakdown) ==
    IF breakdown = <<>> THEN 0
    ELSE Head(breakdown).count * Head(breakdown).sets_per_carton
         + SetsHeld(Tail(breakdown))

\* C22: for non-empty options with positive sizes and quantity >= 1,
\* quantity <= sum(count * sets_per_carton) < quantity + (smallest size), and
\* when the largest-first greedy leaves sets over, the entry added for them
\* (the last one) is of the smallest size and has count exactly 1.
C22_BoundedOvershoot ==
    (Called /\ ValidPackInput) =>
        LET held == SetsHeld(pack_result.breakdown)
            smallest == MinOf(SetsOf(pack_options))
            n == Len(pack_result.breakdown)
        IN /\ pack_result.status = "ok"
           /\ pack_quantity <= held
           /\ held < pack_quantity + smallest
           /\ RefRemaining > 0 =>
                 /\ n = Len(RefEntries) + 1
                 /\ pack_result.breakdown[n].sets_per_carton = smallest
                 /\ pack_result.breakdown[n].count = 1
                 /\ held = pack_quantity - RefRemaining + smallest
           /\ RefRemaining = 0 => held = pack_quantity

\* 7 sets in cartons of 4 and 2: one of 4, one of 2 and one more of 2 for the
\* last set, 8 sets held.
C22_Witness ==
    /\ Called /\ ValidPackInput
    /\ SetsOf(pack_options) = {4, 2}
    /\ pack_quantity = 7
    /\ RefRemaining = 1
    /\ SetsHeld(pack_result.breakdown) = 8
    /\ pack_result.breakdown[Len(pack_result.breakdown)].count = 1

(***************************************************************************)
(* C23: what the cleanup of the quote log deletes and what it leaves       *)
(***************************************************************************)

Cleaned == hist_op.op = "cleanup"

\* The rows under the header whose first cell parses as a time older than
\* now minus the retention.
OldRows(all_values, now) ==
    {i \in 2..Len(all_values) :
        /\ all_values[i] # <<>>
        /\ all_values[i][1].s = TimeFormat
        /\ all_values[i][1].digits # <<>>
        /\ Number(all_values[i][1].digits) < now - Retention}

\* C23: _cleanup_old_records_sheet deletes exactly the rows whose timestamp
\* parses and is older than now minus 90 days; the header and every other
\* row (recent rows, rows with unparseable timestamps) remain, in their
\* original relative order.
C23_CleanupDeletesExactlyOldRows ==
    Cleaned =>
        LET all_values == history_result.all_values
            old == OldRows(all_values, hist_now)
        IN /\ sheet = Without(all_values, old, 1)
           /\ Len(sheet) = Len(all_values) - Cardinality(old)
           /\ sheet[1] = SHEET_HEADER

\* An old row, a row without a timestamp, a second old row: the two old
\* rows go, the header and the row between them stay.
C23_Witness ==
    /\ Cleaned
    /\ hist_now = 5
    /\ history_result.all_values =
          << SHEET_HEADER, RowStartingWith(Strftime(1)),
             RowStartingWith(OtherText), RowStartingWith(Strftime(0)) >>
    /\ sheet = <<SHEET_HEADER, RowStartingWith(OtherText)>>

(***************************************************************************)
(* C24: old results are cleared when the input conditions change           *)
(***************************************************************************)

Flows == {"intl", "dom"}
QueryKeyOf(flow) == IF flow = "intl" THEN "intl_last_query" ELSE "dom_last_query"
RatesKeyOf(flow) == IF flow = "intl" THEN "intl_last_rates" ELSE "dom_last_rates"

\* The current list of (model, quantity) pairs of a form whose product
\* section is complete: the catalog holds packing options for the model.
ProductsComplete(form) == form.model \in DOMAIN Catalog
CurrentKey(form) == << <<form.model, form.quantity>> >>

\* The form's products, ZIP or state differ from those of the stored query.
InputsDiffer(q, form) ==
    \/ q.products_key # CurrentKey(form)
    \/ q.dest_zip # form.dest_zip
    \/ q.dest_state # form.dest_state

\* The step leaves flow's last_query and last_rates as they were.
KeysUntouched(flow) ==
    \A k \in {QueryKeyOf(flow), RatesKeyOf(flow)} :
        /\ k \in DOMAIN session_state' <=> k \in DOMAIN session_state
        /\ k \in DOMAIN session_state => session_state'[k] = session_state[k]

\* What a rerun's stale-result check does to a flow with a stored query,
\* given the form of the rerun, its alert and its carrier call.
ClearsWhenChanged(flow, form, stored_now) ==
    (QueryKeyOf(flow) \in DOMAIN session_state /\ ProductsComplete(form)) =>
        IF InputsDiffer(session_state[QueryKeyOf(flow)], form)
        THEN /\ QueryKeyOf(flow) \notin DOMAIN session_state'
             /\ RatesKeyOf(flow) \notin DOMAIN session_state'
        ELSE stored_now \/ KeysUntouched(flow)

\* Results a flow displays belong to a stored query with the form's
\* products, ZIP and state.
DisplayedMatchForm(flow, form, ui) ==
    ui.results # <<>> =>
        /\ QueryKeyOf(flow) \in DOMAIN session_state
        /\ RatesKeyOf(flow) \in DOMAIN session_state
        /\ ~InputsDiffer(session_state[QueryKeyOf(flow)], form)
        /\ ProductsComplete(form)

\* C24: in a render that reaches _clear_old_results_if_changed, if the
\* current (model, quantity) list, ZIP or state differs from those of the
\* flow's last_query, last_query and last_rates are both removed, otherwise
\* both are left unchanged; hence displayed results belong to a stored query
\* whose products, ZIP and state equal the current inputs.
C24_ClearedWhenInputsChange ==
    /\ [][ /\ ClearsWhenChanged("intl", intl_form',
                                carrier_reply'.kind = "response"
                                   /\ intl_ui'.alert = "none")
           /\ ClearsWhenChanged("dom", dom_form',
                                dom_reply'.kind = "rates"
                                   /\ dom_ui'.alert = "none") ]_vars
    /\ [](/\ DisplayedMatchForm("intl", intl_form, intl_ui)
          /\ DisplayedMatchForm("dom", dom_form, dom_ui))

\* The international check kept results (only the extra weight had changed)
\* in the rerun in which the domestic check removed the results of a query
\* for another ZIP.
C24_Witness ==
    /\ cleared.dom = "removed"
    /\ "dom_last_query" \notin DOMAIN session_state
    /\ "dom_last_rates" \notin DOMAIN session_state
    /\ dom_form.dest_zip = "90001"
    /\ dom_form.dest_state = "CA"
    /\ ProductsComplete(dom_form)
    /\ cleared.intl = "kept"
    /\ intl_ui.results # <<>>

(***************************************************************************)
(* C25: do displayed results belong to the inputs now on the form?         *)
(***************************************************************************)

\* The package count and combined weight the form's values give.
CartonsOf(form) == ProductSection(form).total_cartons
CombinedWeightOf(form) ==
    ProductSection(form).total_weight_kg + form.extra_weight

\* C25 (as claimed): whenever a flow displays rate results, every input
\* sent to the carrier for the stored query (package count, combined weight
\* with the extra weight, destination ZIP and state, and the sender ZIP of
\* the domestic flow) equals the current value of that input on the form.
C25_Claim ==
    /\ intl_ui.results # <<>> =>
          /\ sent.intl.num_packages = CartonsOf(intl_form)
          /\ sent.intl.total_weight_kg = CombinedWeightOf(intl_form)
          /\ sent.intl.postal_code = intl_form.dest_zip
          /\ sent.intl.state_code = intl_form.dest_state
    /\ dom_ui.results # <<>> =>
          /\ sent.dom.num_parcels = CartonsOf(dom_form)
          /\ sent.dom.total_weight_kg = CombinedWeightOf(dom_form)
          /\ sent.dom.recipient_zip = dom_form.dest_zip
          /\ sent.dom.sender_zip = dom_form.sender_zip

(***************************************************************************)
(* C26: last_rates and last_query are stored together, never empty         *)
(***************************************************************************)

StoredTogether(flow) ==
    /\ RatesKeyOf(flow) \in DOMAIN session_state
          <=> QueryKeyOf(flow) \in DOMAIN session_state
    /\ RatesKeyOf(flow) \in DOMAIN session_state
          => session_state[RatesKeyOf(flow)] # <<>>

\* The carrier query of the rerun raised, or returned no rates.
IntlQueryFailed(reply) ==
    \/ reply.kind = "raised"
    \/ reply.kind = "response" /\ parse_rate_response(reply.json) = <<>>

DomQueryFailed(reply) ==
    \/ reply.kind = "raised"
    \/ reply.kind = "rates" /\ reply.rates = <<>>

\* C26: in every reachable session state and for each flow, last_rates is
\* present if and only if last_query is, and a stored last_rates is never
\* empty; a carrier query that raises or returns no rates stores nothing and
\* leaves both keys as they were.
C26_RatesAndQueryStoredTogether ==
    /\ [](StoredTogether("intl") /\ StoredTogether("dom"))
    /\ [][ /\ IntlQueryFailed(carrier_reply') => KeysUntouched("intl")
           /\ DomQueryFailed(dom_reply') => KeysUntouched("dom") ]_vars

\* A FedEx query that raised, with the rates and the query of an earlier
\* one still stored, while the domestic flow has stored neither after a
\* query without rates.
C26_Witness ==
    /\ carrier_reply.kind = "raised"
    /\ "intl_last_rates" \in DOMAIN session_state
    /\ "intl_last_query" \in DOMAIN session_state
    /\ "dom_last_rates" \notin DOMAIN session_state
    /\ "dom_last_query" \notin DOMAIN session_state
    /\ dom_ui.alert = "none"
    /\ ProductsComplete(dom_form)

(***************************************************************************)
(* C27: when get_oauth_token returns the cached token                      *)
(***************************************************************************)

\* The expiry of an issued token: the time of its request plus expires_in
\* minus 300 seconds.
ExpiryOf(token) == fx_tokens[token].at + fx_tokens[token].life

\* A token is cached and the time is strictly before its expiry.
CachedAndFresh ==
    token_cache.token # NoToken /\ fx_now < ExpiryOf(token_cache.token)

\* The step contacts no token endpoint and changes no cache.
NoTokenRequest ==
    /\ token_cache' = token_cache
    /\ fx_issued' = fx_issued
    /\ fx_tokens' = fx_tokens

\* C27: get_oauth_token returns the cached token without a request only
\* when force_refresh is false, a token is cached and the time is strictly
\* before the cached expiry (request time + expires_in - 300 s); otherwise
\* it requests a token, and a token issued replaces the cache while a failed
\* request leaves the cache unchanged.
C27_CachedTokenOnlyBeforeExpiry ==
    /\ [](token_cache.token # NoToken =>
            /\ token_cache.token \in 1..Len(fx_tokens)
            /\ token_cache.expires_at = ExpiryOf(token_cache.token))
    /\ [][ \* get_oauth_token(account_number) at the start of a call
           /\ (fx_pc = "idle" /\ fx_pc' # "idle") =>
                 IF CachedAndFresh
                 THEN /\ fx_pc' = "post"
                      /\ fx_token' = token_cache.token
                      /\ NoTokenRequest
                 ELSE /\ fx_pc' = "token"
                      /\ NoTokenRequest
           \* get_oauth_token(account_number, force_refresh=True) after a 401
           /\ (fx_pc = "post" /\ fx_refresh' = "requested") =>
                 fx_pc' = "refresh"
           \* the answer of the token endpoint
           /\ fx_pc \in {"token", "refresh"} =>
                 \/ /\ fx_pc' \in {"post", "repost"}
                    /\ fx_issued' = fx_issued + 1
                    /\ fx_token' = fx_issued'
                    /\ token_cache'.token = fx_token'
                    /\ token_cache'.expires_at =
                          fx_now + fx_tokens'[fx_token'].life
                    /\ fx_tokens'[fx_token'].at = fx_now
                 \/ /\ fx_pc' = "idle"
                    /\ fx_result' = "raised"
                    /\ NoTokenRequest
           \* a rate request posted with a cached token is posted before
           \* that token's expiry
           /\ Len(fx_sent') = 1 /\ Len(fx_sent) = 0 =>
                 fx_now < ExpiryOf(fx_sent'[1].token) ]_vars

\* A call that took the token of an earlier call from the cache, one tick
\* before its expiry.
C27_Witness ==
    /\ fx_pc = "post"
    /\ fx_sent = <<>>
    /\ fx_token # NoToken
    /\ fx_token = token_cache.token
    /\ fx_tokens[fx_token].at < fx_now
    /\ fx_now + 1 = token_cache.expires_at

(***************************************************************************)
(* C28: is the token of a call bound to the call's account number?         *)
(***************************************************************************)

\* The account number carried by the token request that issued a token.
AccountOf(token) == fx_tokens[token].account_number

\* C28 (as claimed): after any sequence of calls with varying account
\* numbers, the token returned for a call with account number X was issued
\* by a token request that carried X; the cache never serves a token
\* obtained for a different account.
C28_Claim ==
    /\ (fx_pc \in {"post", "repost"} /\ fx_token # NoToken) =>
          AccountOf(fx_token) = fx_account
    /\ \A i \in 1..Len(fx_sent) :
          fx_sent[i].token # NoToken => AccountOf(fx_sent[i].token) = fx_account

-----------------------------------------------------------------------------
(* Properties of the product rows, checked under SpecRows.                 *)

\* C29: in each flow the number of product rows stays between 1 and
\* MAX_PRODUCTS (5) after any sequence of Add Product, Remove Last and
\* prefills from the history; Add Product is taken only below 5 rows and adds
\* one, Remove Last only above 1 row and removes one together with the
\* removed row's stored model, and a prefill sets the count to the number of
\* prefilled products.
RowsInRange ==
    \A pfx \in RowFlows :
       /\ rows_num[pfx] \in 1..MAX_PRODUCTS
       /\ Len(rows_widgets[pfx]) = rows_num[pfx]

RowsStep ==
    LET pfx == rows_op'.flow
        before == rows_op'.rows
    IN /\ rows_op'.op = "add" =>
            before < MAX_PRODUCTS /\ rows_num'[pfx] = before + 1
       /\ rows_op'.op = "remove" =>
            /\ before > 1
            /\ rows_num'[pfx] = before - 1
            /\ rows_widgets'[pfx] = SubSeq(rows_widgets[pfx], 1, before - 1)
       /\ rows_op'.op = "prefill" =>
            \E record \in quote_log :
               rows_num'[pfx] = Len(_parse_prefill_products(record))

C29_Claim == [][RowsStep]_vars /\ []RowsInRange

====
